---- MODULE Spec2Model ----
(***************************************************************************)
(* A model of extract_api.py: the type-reference collector, the package    *)
(* extraction pass with its dependency resolution, and the usage           *)
(* reachability analyzer.                                                  *)
(*                                                                         *)
(* Python strings are modelled as sequences of tokens.  A token is an      *)
(* identifier ("Widget", "int") or one of the punctuation tokens ".", "[", *)
(* "]", "," and " ".  "pkg.Widget" is <<"pkg", ".", "Widget">>.            *)
(***************************************************************************)
EXTENDS Naturals, Sequences, FiniteSets, TLC

VARIABLES
    \* the process-scoped TypeReferenceCollector (_type_collector)
    refs, defined_types, resolved_packages, import_map,
    \* history of the current collector pass
    registered, refBeforeDef, defBeforeRef, builtinSeen,
    \* extract_package: one record of locals per thread, the number of calls
    \* started, the outcomes of the finished calls, and whether the calls are
    \* made one after another or by two threads at once
    run, calls, results, mode,
    \* analyze_usage: the API model and the position in the function, the
    \* reachability traversal, the client-method index, the scan of the sample
    \* files and the report
    api, upc, reachable, queue, client_methods, covered, seen_ops, patterns,
    file_count, uncovered, sorted_patterns,
    \* history of the scan: the files visited and what each call of the last
    \* file was attributed to
    visited, lastAttr,
    \* a function applied on its own: which one, its argument and what it
    \* returned
    applied, input, output

collVars == <<refs, defined_types, resolved_packages, import_map>>
collHist == <<registered, refBeforeDef, defBeforeRef, builtinSeen>>
runVars  == <<run, calls, results, mode>>
useVars  == <<api, upc, reachable, queue, client_methods, covered, seen_ops,
               patterns, file_count, uncovered, sorted_patterns, visited,
               lastAttr>>
fnVars   == <<applied, input, output>>
vars     == <<collVars, collHist, runVars, useVars, fnVars>>

-----------------------------------------------------------------------------
(* String helpers (str.split, str.strip, str.join, "x in s")               *)

Punct == {".", "[", "]", ",", " "}

StrContains(s, t) == \E i \in 1..Len(s) : s[i] = t

FirstIndex(s, t) ==
    IF StrContains(s, t)
    THEN CHOOSE i \in 1..Len(s) : s[i] = t /\ \A j \in 1..(i - 1) : s[j] # t
    ELSE 0

LastIndex(s, t) ==
    IF StrContains(s, t)
    THEN CHOOSE i \in 1..Len(s) : s[i] = t /\ \A j \in (i + 1)..Len(s) : s[j] # t
    ELSE 0

\* s.split(t)[0]
SplitHead(s, t) ==
    IF StrContains(s, t) THEN SubSeq(s, 1, FirstIndex(s, t) - 1) ELSE s

\* s.split(t)[-1]
SplitLast(s, t) ==
    IF StrContains(s, t) THEN SubSeq(s, LastIndex(s, t) + 1, Len(s)) ELSE s

\* s.split(t)
RECURSIVE SplitAll(_, _)
SplitAll(s, t) ==
    IF StrContains(s, t)
    THEN <<SubSeq(s, 1, FirstIndex(s, t) - 1)>>
         \o SplitAll(SubSeq(s, FirstIndex(s, t) + 1, Len(s)), t)
    ELSE <<s>>

\* s.strip()
RECURSIVE Strip(_)
Strip(s) ==
    IF s = <<>> THEN s
    ELSE IF Head(s) = " " THEN Strip(Tail(s))
    ELSE IF s[Len(s)] = " " THEN Strip(SubSeq(s, 1, Len(s) - 1))
    ELSE s

\* t.join(parts)
RECURSIVE Join(_, _)
Join(parts, t) ==
    IF parts = <<>> THEN <<>>
    ELSE IF Len(parts) = 1 THEN parts[1]
    ELSE parts[1] \o <<t>> \o Join(Tail(parts), t)

Range(f) == {f[i] : i \in DOMAIN f}

-----------------------------------------------------------------------------
(* Builtin / stdlib classifier                                             *)

\* A sample of the names _build_builtins_set gathers from builtins, typing,
\* collections.abc and abc.
PYTHON_BUILTINS == {"int", "str", "Optional", "Dict"}

\* A sample of sys.stdlib_module_names.
PYTHON_STDLIB_PACKAGES == {"os", "http"}

is_builtin_type_by_suffix(type_name) ==
    SplitLast(Strip(SplitHead(type_name, "[")), ".") \in {<<b>> : b \in PYTHON_BUILTINS}

is_builtin_type(type_name) ==
    LET base_type == Strip(SplitHead(type_name, "["))
    IN  IF StrContains(base_type, ".")
        THEN FALSE
        ELSE Len(base_type) = 1 /\ base_type[1] \in PYTHON_BUILTINS

is_stdlib_package(package_name) ==
    LET root_pkg == SplitHead(package_name, ".")
    IN  Len(root_pkg) = 1 /\ root_pkg[1] \in PYTHON_STDLIB_PACKAGES

-----------------------------------------------------------------------------
(* Syntax-tree nodes.  Every node is a record [k, aux, id, kids]: k is the *)
(* node class, id a string (a token sequence), kids the child nodes.       *)

Node(k, aux, id, kids) == [k |-> k, aux |-> aux, id |-> id, kids |-> kids]

NameNode(id)             == Node("Name", "", <<id>>, <<>>)
AttributeNode(value, a)  == Node("Attribute", "", <<a>>, <<value>>)
SubscriptNode(value, sl) == Node("Subscript", "", <<>>, <<value, sl>>)
BinOpNode(l, op, r)      == Node("BinOp", op, <<>>, <<l, r>>)
StrConstant(s)           == Node("Constant", "str", s, <<>>)
NumConstant              == Node("Constant", "int", <<>>, <<>>)
TupleNode(elts)          == Node("Tuple", "", <<>>, elts)
ListNode(elts)           == Node("List", "", <<>>, elts)
CallNode(func)           == Node("Call", "", <<>>, <<func>>)
NoneNode                 == Node("None", "", <<>>, <<>>)

\* ast.parse(text, mode='eval') on the strings the model uses: a dotted name
\* parses to a Name / Attribute chain, anything else is a SyntaxError.
IsDottedName(s) ==
    /\ Len(s) % 2 = 1
    /\ \A i \in 1..Len(s) :
          IF i % 2 = 1 THEN s[i] \notin Punct ELSE s[i] = "."

RECURSIVE DottedTree(_)
DottedTree(s) ==
    IF Len(s) = 1 THEN NameNode(s[1])
    ELSE AttributeNode(DottedTree(SubSeq(s, 1, Len(s) - 2)), s[Len(s)])

\* A parse that gives up at the first piece it cannot use and keeps what it
\* read before.
ast_parse_eval_partial(s) ==
    IF IsDottedName(s) THEN DottedTree(s)
    ELSE IF s # <<>> /\ s[1] \notin Punct THEN NameNode(s[1])
    ELSE Node("SyntaxError", "", <<>>, <<>>)

ast_parse_eval(s) ==
    IF IsDottedName(s) THEN DottedTree(s) ELSE Node("SyntaxError", "", <<>>, <<>>)

\* None is the empty string here: callers test "if full_name".
RECURSIVE _get_attribute_name(_)
_get_attribute_name(node) ==
    IF node.k = "Attribute"
    THEN LET inner == _get_attribute_name(node.kids[1])
         IN  IF inner = <<>> THEN <<>> ELSE inner \o <<".">> \o node.id
    ELSE IF node.k = "Name" THEN node.id
    ELSE <<>>

RECURSIVE collect_types_single_argument(_)
collect_types_single_argument(ann) ==
    IF ann.k = "Name"
    THEN IF ~is_builtin_type(ann.id) THEN {ann.id} ELSE {}
    ELSE IF ann.k = "Attribute"
    THEN IF _get_attribute_name(ann) # <<>> /\ ~is_builtin_type(_get_attribute_name(ann))
         THEN {_get_attribute_name(ann)} ELSE {}
    ELSE IF ann.k = "Subscript"
    THEN collect_types_single_argument(ann.kids[1])
         \cup collect_types_single_argument(ann.kids[2])
    ELSE IF ann.k = "BinOp" /\ ann.aux = "BitOr"
    THEN collect_types_single_argument(ann.kids[1])
         \cup collect_types_single_argument(ann.kids[2])
    ELSE IF ann.k = "Constant" /\ ann.aux = "str"
            /\ ast_parse_eval(ann.id).k # "SyntaxError"
    THEN collect_types_single_argument(ast_parse_eval(ann.id))
    ELSE IF ann.k = "List"
    THEN UNION {collect_types_single_argument(ann.kids[i]) : i \in 1..Len(ann.kids)}
    ELSE {}

\* The set of names one call adds to its refs argument.
RECURSIVE collect_types_from_annotation(_)
collect_types_from_annotation(ann) ==
    IF ann.k = "None" THEN {}
    ELSE IF ann.k = "Name"
    THEN IF ~is_builtin_type(ann.id) THEN {ann.id} ELSE {}
    ELSE IF ann.k = "Attribute"
    THEN LET full_name == _get_attribute_name(ann)
         IN  IF full_name # <<>> /\ ~is_builtin_type(full_name)
             THEN {full_name} ELSE {}
    ELSE IF ann.k = "Subscript"
    THEN collect_types_from_annotation(ann.kids[1])
         \cup (IF ann.kids[2].k = "Tuple"
               THEN UNION {collect_types_from_annotation(ann.kids[2].kids[i]) :
                              i \in 1..Len(ann.kids[2].kids)}
               ELSE collect_types_from_annotation(ann.kids[2]))
    ELSE IF ann.k = "BinOp" /\ ann.aux = "BitOr"
    THEN collect_types_from_annotation(ann.kids[1])
         \cup collect_types_from_annotation(ann.kids[2])
    ELSE IF ann.k = "Constant"
    THEN IF ann.aux = "str"
         THEN LET parsed == ast_parse_eval(ann.id)
              IN  IF parsed.k = "SyntaxError" THEN {}
                  ELSE collect_types_from_annotation(parsed)
         ELSE {}
    ELSE IF ann.k \in {"Tuple", "List"}
    THEN UNION {collect_types_from_annotation(ann.kids[i]) : i \in 1..Len(ann.kids)}
    ELSE {}

-----------------------------------------------------------------------------
(* TypeReferenceCollector                                                  *)

get_external_refs_no_defined_filter ==
    {name \in refs : ~is_builtin_type(name)}

get_external_refs ==
    {name \in refs :
        SplitHead(name, "[") \notin defined_types /\ ~is_builtin_type(name)}

EmptyMap == [x \in {} |-> <<>>]

\* One import statement: [kind, module, names], names a sequence of
\* [name, asname]; an absent module or asname is the empty string.
RECURSIVE import_aliases(_, _, _)
import_aliases(map, stmt, i) ==
    IF i > Len(stmt.names) THEN map
    ELSE LET alias == stmt.names[i]
             name  == IF alias.asname # <<>> THEN alias.asname ELSE alias.name
             value == IF stmt.kind = "ImportFrom" THEN stmt.module ELSE alias.name
             keep  == IF stmt.kind = "ImportFrom"
                      THEN name # <<"*">> /\ ~is_builtin_type(name)
                      ELSE ~is_builtin_type(name)
         IN  import_aliases(IF keep THEN (name :> value) @@ map ELSE map, stmt, i + 1)

\* stmts: the Import / ImportFrom nodes of a module in ast.walk order.
RECURSIVE collect_imports(_, _)
collect_imports(map, stmts) ==
    IF stmts = <<>> THEN map
    ELSE LET stmt == Head(stmts)
         IN  IF stmt.kind = "ImportFrom"
                /\ (stmt.module = <<>> \/ stmt.module = <<"__future__">>)
             THEN collect_imports(map, Tail(stmts))
             ELSE collect_imports(import_aliases(map, stmt, 1), Tail(stmts))

\* The longest proper dotted prefix of type_name that is an installed package,
\* trying prefixes of i = len(parts) - 1 down to 1 parts.
RECURSIVE dotted_prefix(_, _, _)
dotted_prefix(parts, i, installed) ==
    IF i < 1 THEN <<>>
    ELSE LET pkg == Join(SubSeq(parts, 1, i), ".")
         IN  IF pkg \in installed THEN pkg ELSE dotted_prefix(parts, i - 1, installed)

\* Returns [pkg, cache]: the package (the empty string for None) and the
\* resolved_packages cache after the call.
resolve_package(type_name, installed, cache, imports) ==
    IF type_name \in DOMAIN cache
    THEN [pkg |-> cache[type_name], cache |-> cache]
    ELSE LET base_name == SplitHead(type_name, "[")
             root_pkg  == IF base_name \in DOMAIN imports
                          THEN SplitHead(imports[base_name], ".") ELSE <<>>
             dotted    == IF StrContains(type_name, ".")
                          THEN LET parts == SplitAll(type_name, ".")
                               IN  dotted_prefix(parts, Len(parts) - 1, installed)
                          ELSE <<>>
         IN  IF base_name \in DOMAIN imports /\ root_pkg \in installed
             THEN [pkg |-> root_pkg, cache |-> (type_name :> root_pkg) @@ cache]
             ELSE IF dotted # <<>>
             THEN [pkg |-> dotted, cache |-> (type_name :> dotted) @@ cache]
             ELSE [pkg |-> <<>>, cache |-> cache]

-----------------------------------------------------------------------------
(* Source trees and the installed environment                              *)

ImportFrom(module, names) == [kind |-> "ImportFrom", module |-> module, names |-> names]
Alias(name) == [name |-> <<name>>, asname |-> <<>>]

\* A public top-level class: its bases and the annotations of its public
\* methods, in the order extract_class visits them.
ClassDef(name, bases, anns) == [name |-> <<name>>, bases |-> bases, anns |-> anns]
NoClass == [name |-> <<>>, bases |-> <<>>, anns |-> <<>>]

TreeAlpha ==
    [package |-> "alpha",
     modules |-> <<
        [name    |-> "alpha.client",
         imports |-> <<ImportFrom(<<"core", ".", "pipeline">>,
                                  <<Alias("Pipeline"), Alias("Policy")>>),
                       ImportFrom(<<"lib">>, <<Alias("Helper")>>)>>,
         classes |-> <<ClassDef("Client", <<>>,
                          <<NameNode("Pipeline"),
                            SubscriptNode(NameNode("Optional"), NameNode("Policy")),
                            NameNode("Helper"),
                            NameNode("int")>>)>>]>>]

TreeBeta ==
    [package |-> "beta",
     modules |-> <<
        [name    |-> "beta.api",
         imports |-> <<ImportFrom(<<"core">>, <<Alias("Pipeline"), Alias("Missing")>>),
                       ImportFrom(<<"http">>, <<Alias("Server")>>)>>,
         classes |-> <<ClassDef("Service", <<>>,
                          <<NameNode("Widget"), NameNode("Pipeline"),
                            NameNode("Missing"), NameNode("Server")>>)>>],
        [name    |-> "beta.models",
         imports |-> <<>>,
         classes |-> <<ClassDef("Widget", <<>>, <<NameNode("str")>>)>>]>>]

SourceTrees == {TreeAlpha, TreeBeta}
Tree(name) == CHOOSE t \in SourceTrees : t.package = name

\* What find_installed_packages returns, in dict order: each package with the
\* classes extract_type_from_package can see in it.
Installed ==
    <<[name |-> <<"core">>,
       classes |-> {ClassDef("Pipeline", <<>>, <<NameNode("Transport")>>),
                    ClassDef("Policy", <<>>, <<>>)}],
      [name |-> <<"lib">>, classes |-> {ClassDef("Transport", <<>>, <<>>)}],
      [name |-> <<"other">>,
       classes |-> {ClassDef("Helper", <<NameNode("HelperBase")>>, <<>>)}]>>

installed_package_names == {Installed[i].name : i \in DOMAIN Installed}
InstalledPkg(name) == Installed[CHOOSE i \in DOMAIN Installed : Installed[i].name = name]

\* All package names a dependency entry can carry, in ascending order.
PackageOrder == <<<<"core">>, <<"lib">>, <<"other">>>>

extract_type_from_package(type_name, pkg) ==
    IF \E c \in pkg.classes : c.name = type_name
    THEN CHOOSE c \in pkg.classes : c.name = type_name
    ELSE NoClass

\* The names extract_class (with extract_function for its methods) adds to
\* the collector's refs.
class_refs(cls) ==
    UNION {collect_types_from_annotation(cls.bases[i]) :
              i \in {j \in DOMAIN cls.bases :
                        cls.bases[j].k \in {"Name", "Attribute", "Subscript"}}}
    \cup UNION {collect_types_from_annotation(cls.anns[i]) : i \in DOMAIN cls.anns}

add_defined_type(defined, name) == defined \cup {SplitHead(name, "[")}

-----------------------------------------------------------------------------
(* The collector driven directly: any sequence of its operations           *)

AnnUniverse ==
    {NoneNode,
     NameNode("int"), NameNode("Widget"), NameNode("Foo"),
     AttributeNode(NameNode("pkg"), "Widget"),
     AttributeNode(CallNode(NameNode("f")), "Widget"),
     SubscriptNode(NameNode("Optional"), NameNode("Widget")),
     SubscriptNode(NameNode("Optional"),
         SubscriptNode(NameNode("Dict"),
             TupleNode(<<NameNode("str"), StrConstant(<<"pkg", ".", "Widget">>)>>))),
     BinOpNode(NameNode("Foo"), "BitOr", NameNode("int")),
     BinOpNode(NameNode("Foo"), "Add", NameNode("Widget")),
     StrConstant(<<"Foo">>), StrConstant(<<"pkg", ".">>), NumConstant,
     ListNode(<<NameNode("Foo"), NameNode("int")>>)}

ClassNameUniverse == {<<"Widget">>, <<"Foo">>, <<"Client">>}

ImportUniverse ==
    {<<ImportFrom(<<"core", ".", "models">>, <<Alias("Widget")>>)>>,
     <<ImportFrom(<<"__future__">>, <<Alias("annotations")>>),
       [kind |-> "Import", module |-> <<>>, names |-> <<Alias("os")>>]>>}

\* Every identifier an annotation spells out, builtin or not.
RECURSIVE AllNames(_)
AllNames(ann) ==
    (IF ann.k = "Name" THEN {ann.id} ELSE {})
    \cup UNION {AllNames(ann.kids[i]) : i \in 1..Len(ann.kids)}

CollectFromAnnotation(ann) ==
    /\ refs' = refs \cup collect_types_from_annotation(ann)
    /\ defBeforeRef' = defBeforeRef \cup
          {n \in collect_types_from_annotation(ann) : n \in registered}
    /\ builtinSeen' = (builtinSeen \/ \E n \in AllNames(ann) : is_builtin_type(n))
    /\ UNCHANGED <<defined_types, resolved_packages, import_map,
                   registered, refBeforeDef, runVars, useVars, fnVars>>

AddDefinedType(name) ==
    /\ defined_types' = add_defined_type(defined_types, name)
    /\ registered' = registered \cup {name}
    /\ refBeforeDef' = refBeforeDef \cup (IF name \in refs THEN {name} ELSE {})
    /\ UNCHANGED <<refs, resolved_packages, import_map,
                   defBeforeRef, builtinSeen, runVars, useVars, fnVars>>

CollectImportsOp(stmts) ==
    /\ import_map' = collect_imports(import_map, stmts)
    /\ UNCHANGED <<refs, defined_types, resolved_packages, collHist, runVars, useVars,
                   fnVars>>

ResolvePackageOp(type_name) ==
    /\ resolved_packages' =
          resolve_package(type_name, installed_package_names,
                          resolved_packages, import_map).cache
    /\ UNCHANGED <<refs, defined_types, import_map, collHist, runVars, useVars, fnVars>>

ClearOp ==
    /\ refs' = {}
    /\ defined_types' = {}
    /\ resolved_packages' = EmptyMap
    /\ import_map' = EmptyMap
    /\ registered' = {}
    /\ refBeforeDef' = {}
    /\ defBeforeRef' = {}
    /\ builtinSeen' = FALSE
    /\ UNCHANGED <<runVars, useVars, fnVars>>

Procs == {"t1", "t2"}

EmptyMine == [refs |-> {}, defined |-> {}, imports |-> EmptyMap, resolved |-> EmptyMap]

IdleRun ==
    [pc |-> "idle", tree |-> "", mi |-> 0, ci |-> 0, todo |-> {},
     deps |-> EmptyMap, mine |-> EmptyMine, overlapped |-> FALSE,
     sawForeign |-> FALSE, sawErased |-> FALSE, log |-> {}, returned |-> <<>>]

CollectorEmpty ==
    /\ refs = {}
    /\ defined_types = {}
    /\ resolved_packages = EmptyMap
    /\ import_map = EmptyMap

HistEmpty ==
    /\ registered = {}
    /\ refBeforeDef = {}
    /\ defBeforeRef = {}
    /\ builtinSeen = FALSE

RunIdle ==
    /\ run = [p \in Procs |-> IdleRun]
    /\ calls = 0
    /\ results = {}

UsageIdle ==
    /\ api = "none"
    /\ upc = "idle"
    /\ reachable = {}
    /\ queue = <<>>
    /\ client_methods = <<>>
    /\ covered = <<>>
    /\ seen_ops = {}
    /\ patterns = {}
    /\ file_count = 0
    /\ uncovered = <<>>
    /\ sorted_patterns = <<>>
    /\ visited = <<>>
    /\ lastAttr = <<>>

FnIdle == applied = "none" /\ input = <<>> /\ output = <<>>

InitCollector ==
    CollectorEmpty /\ HistEmpty /\ RunIdle /\ UsageIdle /\ FnIdle /\ mode = "none"

NextCollector ==
    \/ \E ann \in AnnUniverse : CollectFromAnnotation(ann)
    \/ \E name \in ClassNameUniverse : AddDefinedType(name)
    \/ \E stmts \in ImportUniverse : CollectImportsOp(stmts)
    \/ \E type_name \in refs : ResolvePackageOp(type_name)
    \/ ClearOp

SpecCollector == InitCollector /\ [][NextCollector]_vars

\* C1 (non-leakage): get_external_refs() holds no builtin-classified name and
\* no name whose part before the first "[" was registered as locally defined
\* in the same pass, whichever of the reference and the registration came first.
NonLeakage ==
    \A name \in get_external_refs :
        /\ ~is_builtin_type(name)
        /\ SplitHead(name, "[") \notin registered

\* A pass in which one name was referenced before its class was registered,
\* another after, a builtin was offered, and something external remains.
NonLeakageWitness ==
    /\ \E a \in refBeforeDef : \E b \in defBeforeRef : a # b
    /\ builtinSeen
    /\ get_external_refs # {}

-----------------------------------------------------------------------------
(* extract_package and resolve_transitive_dependencies, one step at a time *)

MaxCalls == 2

ActivePcs == {"imports", "classes", "resolve", "loop"}

\* Thread p's locals become r; a thread whose analysis is between its own
\* clear() and its return has had the shared collector changed under it.
Touch(p, r) ==
    [q \in Procs |->
        IF q = p THEN r
        ELSE IF run[q].pc \in ActivePcs THEN [run[q] EXCEPT !.overlapped = TRUE]
        ELSE run[q]]

CurModule(p) == Tree(run[p].tree).modules[run[p].mi]

\* The position after class ci of module mi.
Advance(r) ==
    LET mods == Tree(r.tree).modules
    IN  IF r.pc = "classes" /\ r.ci < Len(mods[r.mi].classes)
        THEN [r EXCEPT !.ci = r.ci + 1]
        ELSE IF r.mi < Len(mods)
        THEN [r EXCEPT !.pc = "imports", !.mi = r.mi + 1, !.ci = 0]
        ELSE [r EXCEPT !.pc = "resolve"]

Begin(p) ==
    /\ IF mode = "sequential"
       THEN \A q \in Procs : run[q].pc \in {"idle", "done", "raised"}
       ELSE run[p].pc = "idle"
    /\ calls < MaxCalls
    /\ \E t \in SourceTrees :
          run' = [run EXCEPT ![p] = [IdleRun EXCEPT !.pc = "clear", !.tree = t.package]]
    /\ calls' = calls + 1
    /\ UNCHANGED <<collVars, collHist, useVars, fnVars, results, mode>>

clear_no_refs ==
    /\ refs' = refs
    /\ defined_types' = {}
    /\ resolved_packages' = EmptyMap
    /\ import_map' = EmptyMap

clear ==
    /\ refs' = {}
    /\ defined_types' = {}
    /\ resolved_packages' = EmptyMap
    /\ import_map' = EmptyMap

Clear(p) ==
    /\ run[p].pc = "clear"
    /\ clear
    /\ run' = Touch(p, Advance([run[p] EXCEPT !.mi = 0]))
    /\ UNCHANGED <<collHist, useVars, fnVars, calls, results, mode>>

CollectImports(p) ==
    /\ run[p].pc = "imports"
    /\ LET m == CurModule(p)
           r == [run[p] EXCEPT
                    !.mine.imports = collect_imports(@, m.imports)]
       IN  /\ import_map' = collect_imports(import_map, m.imports)
           /\ run' = Touch(p, IF m.classes = <<>> THEN Advance(r)
                              ELSE [r EXCEPT !.pc = "classes", !.ci = 1])
    /\ UNCHANGED <<refs, defined_types, resolved_packages, collHist, useVars, fnVars,
                   calls, results, mode>>

ExtractClass(p) ==
    /\ run[p].pc = "classes"
    /\ LET c == CurModule(p).classes[run[p].ci]
           r == [run[p] EXCEPT
                    !.mine.refs = @ \cup class_refs(c),
                    !.mine.defined = add_defined_type(@, c.name)]
       IN  /\ refs' = refs \cup class_refs(c)
           /\ defined_types' = add_defined_type(defined_types, c.name)
           /\ run' = Touch(p, Advance(r))
    /\ UNCHANGED <<resolved_packages, import_map, collHist, useVars, fnVars, calls, results, mode>>

\* sorted(result, key=package) over the dependency table.
sorted_dependencies(deps) ==
    LET present == SelectSeq(PackageOrder, LAMBDA x : x \in DOMAIN deps)
    IN  [i \in 1..Len(present) |->
            [package  |-> present[i],
             isStdlib |-> deps[present[i]].isStdlib,
             classes  |-> deps[present[i]].classes]]

module_names(tree) == [i \in 1..Len(tree.modules) |-> tree.modules[i].name]

\* The locals of a finished call are gone; the history fields and the list
\* the caller was handed stay.
Return(r, pc, deps) ==
    [r EXCEPT !.pc = pc, !.mi = 0, !.ci = 0, !.todo = {}, !.deps = EmptyMap,
              !.mine = EmptyMine, !.returned = sorted_dependencies(deps)]

Outcome(p, status, deps) ==
    [tree |-> run[p].tree, status |-> status,
     modules |-> module_names(Tree(run[p].tree)),
     dependencies |-> sorted_dependencies(deps)]

Foreign(p) ==
    \/ refs \ run[p].mine.refs # {}
    \/ defined_types \ run[p].mine.defined # {}
    \/ \E k \in DOMAIN import_map :
          k \notin DOMAIN run[p].mine.imports \/ run[p].mine.imports[k] # import_map[k]
    \/ \E k \in DOMAIN resolved_packages : k \notin DOMAIN run[p].mine.resolved

Erased(p) ==
    \/ run[p].mine.refs \ refs # {}
    \/ run[p].mine.defined \ defined_types # {}
    \/ \E k \in DOMAIN run[p].mine.imports : k \notin DOMAIN import_map
    \/ \E k \in DOMAIN run[p].mine.resolved : k \notin DOMAIN resolved_packages

\* The head of resolve_transitive_dependencies: the external references are
\* read once from the shared collector.
Resolve(p) ==
    /\ run[p].pc = "resolve"
    /\ LET external_refs == get_external_refs
           r == [run[p] EXCEPT !.sawForeign = Foreign(p), !.sawErased = Erased(p)]
       IN  IF external_refs = {}
           THEN /\ run' = [run EXCEPT ![p] = Return(r, "done", EmptyMap)]
                /\ results' = results \cup {Outcome(p, "ok", EmptyMap)}
           ELSE /\ run' = [run EXCEPT ![p] =
                              [r EXCEPT !.pc = "loop", !.todo = external_refs]]
                /\ results' = results
    /\ UNCHANGED <<collVars, collHist, useVars, fnVars, calls, mode>>

\* The first installed package, in dict order from position i, that holds a
\* class of this name; 0 when none does.
RECURSIVE scan_installed(_, _)
scan_installed(type_name, i) ==
    IF i > Len(Installed) THEN 0
    ELSE IF extract_type_from_package(type_name, Installed[i]) # NoClass THEN i
    ELSE scan_installed(type_name, i + 1)

\* The append replaced by an assignment of a one-element list.
add_dependency_class_replacing(deps, pkg, cls) ==
    IF pkg \notin DOMAIN deps
    THEN [deps |-> (pkg :> [isStdlib |-> is_stdlib_package(pkg),
                            classes |-> <<cls.name>>, bare |-> FALSE]) @@ deps,
          raised |-> FALSE]
    ELSE IF deps[pkg].bare
    THEN [deps |-> deps, raised |-> TRUE]
    ELSE [deps |-> [deps EXCEPT ![pkg].classes = <<cls.name>>],
          raised |-> FALSE]

\* dependencies[pkg]["classes"].append(type_info), creating the entry first
\* when the package has none.  An entry recorded from the import map alone
\* has no "classes" key: appending to it raises KeyError.
add_dependency_class(deps, pkg, cls) ==
    IF pkg \notin DOMAIN deps
    THEN [deps |-> (pkg :> [isStdlib |-> is_stdlib_package(pkg),
                            classes |-> <<cls.name>>, bare |-> FALSE]) @@ deps,
          raised |-> FALSE]
    ELSE IF deps[pkg].bare
    THEN [deps |-> deps, raised |-> TRUE]
    ELSE [deps |-> [deps EXCEPT ![pkg].classes = Append(@, cls.name)],
          raised |-> FALSE]

\* The import-map package of a reference: the root package of the module its
\* base name was imported from, when that package is installed.
import_map_package(type_name, imports) ==
    LET base_name == SplitHead(type_name, "[")
    IN  IF base_name \in DOMAIN imports
           /\ SplitHead(imports[base_name], ".") \in installed_package_names
        THEN SplitHead(imports[base_name], ".")
        ELSE <<>>

\* What one iteration of the loop over external_refs leaves: the dependency
\* table, whether KeyError was raised, the cache, the class extract_class was
\* run on (NoClass for none) and the package it was listed under.
listed_outcome(added, cache, cls, pkg) ==
    [deps |-> added.deps, raised |-> added.raised, cache |-> cache,
     cls |-> cls, listed |-> pkg]

\* "If still unresolved": the import map's root package is recorded without
\* classes, unless it is standard-library or already has an entry.
record_import_only(root_pkg, known, deps, cache) ==
    [deps |-> IF known /\ ~is_stdlib_package(root_pkg) /\ root_pkg \notin DOMAIN deps
              THEN (root_pkg :> [isStdlib |-> FALSE, classes |-> <<>>,
                                 bare |-> TRUE]) @@ deps
              ELSE deps,
     raised |-> FALSE, cache |-> cache, cls |-> NoClass, listed |-> <<>>]

import_root(base_name, imports) ==
    IF base_name \in DOMAIN imports THEN SplitHead(imports[base_name], ".") ELSE <<>>

\* "Fall back to searching all installed packages": at is the first package
\* in dict order holding the class, 0 for none.
resolve_by_scan(type_name, short, deps, cache, imports, at) ==
    IF at # 0
    THEN listed_outcome(
             add_dependency_class(deps, Installed[at].name,
                                  extract_type_from_package(short, Installed[at])),
             cache, extract_type_from_package(short, Installed[at]),
             Installed[at].name)
    ELSE record_import_only(import_root(SplitHead(type_name, "["), imports),
                            SplitHead(type_name, "[") \in DOMAIN imports,
                            deps, cache)

\* direct: the class found in the package resolve_package named.
resolve_listed(type_name, short, deps, imports, rp, direct) ==
    IF direct # NoClass
    THEN listed_outcome(add_dependency_class(deps, rp.pkg, direct),
                        rp.cache, direct, rp.pkg)
    ELSE resolve_by_scan(type_name, short, deps, rp.cache, imports,
                         scan_installed(short, 1))

direct_class(short, pkg) ==
    IF pkg # <<>> /\ pkg \in installed_package_names
    THEN extract_type_from_package(short, InstalledPkg(pkg))
    ELSE NoClass

resolve_with(type_name, short, deps, imports, rp) ==
    resolve_listed(type_name, short, deps, imports, rp, direct_class(short, rp.pkg))

\* One iteration of the loop over external_refs.
resolve_one(type_name, deps, cache, imports) ==
    resolve_with(type_name, SplitLast(type_name, "."), deps, imports,
                 resolve_package(type_name, installed_package_names, cache, imports))

\* extract_class on a recovered class writes to the collector.
recovered_refs(cls) == IF cls = NoClass THEN {} ELSE class_refs(cls)
recovered_defined(cls) == IF cls = NoClass THEN {} ELSE {SplitHead(cls.name, "[")}

\* The iteration putting the names of the recovered class back on the list
\* of references to resolve.
after_iteration_expanding(p, type_name, o) ==
    [run[p] EXCEPT
        !.todo = (@ \ {type_name}) \cup recovered_refs(o.cls),
        !.deps = o.deps,
        !.mine.refs = @ \cup recovered_refs(o.cls),
        !.mine.defined = @ \cup recovered_defined(o.cls),
        !.mine.resolved = IF o.cache # resolved_packages
                          THEN (type_name :> o.cache[type_name]) @@ @ ELSE @,
        !.log = @ \cup {[type |-> type_name,
                         importPkg |-> import_map_package(type_name, import_map),
                         listed |-> o.listed]}]

\* Thread p's locals after the iteration for type_name with outcome o.
after_iteration(p, type_name, o) ==
    [run[p] EXCEPT
        !.todo = @ \ {type_name},
        !.deps = o.deps,
        !.mine.refs = @ \cup recovered_refs(o.cls),
        !.mine.defined = @ \cup recovered_defined(o.cls),
        !.mine.resolved = IF o.cache # resolved_packages
                          THEN (type_name :> o.cache[type_name]) @@ @ ELSE @,
        !.log = @ \cup {[type |-> type_name,
                         importPkg |-> import_map_package(type_name, import_map),
                         listed |-> o.listed]}]

ResolveOneWith(p, o, r) ==
    /\ refs' = refs \cup recovered_refs(o.cls)
    /\ defined_types' = defined_types \cup recovered_defined(o.cls)
    /\ resolved_packages' = o.cache
    /\ run' = Touch(p, IF o.raised THEN Return(r, "raised", EmptyMap)
                       ELSE IF r.todo = {} THEN Return(r, "done", o.deps) ELSE r)
    /\ results' =
          IF o.raised THEN results \cup {Outcome(p, "KeyError", EmptyMap)}
          ELSE IF r.todo = {} THEN results \cup {Outcome(p, "ok", o.deps)}
          ELSE results

ResolveOneFor(p, type_name, o) ==
    ResolveOneWith(p, o, after_iteration(p, type_name, o))

\* The body of "for type_name in external_refs", for the element the set
\* iteration yields next; after the last element the result is sorted and
\* returned.
ResolveOne(p) ==
    /\ run[p].pc = "loop"
    /\ \E type_name \in run[p].todo :
          ResolveOneFor(p, type_name,
                        resolve_one(type_name, run[p].deps,
                                    resolved_packages, import_map))
    /\ UNCHANGED <<import_map, collHist, useVars, fnVars, calls, mode>>

Step(p) ==
    \/ Begin(p)
    \/ Clear(p)
    \/ CollectImports(p)
    \/ ExtractClass(p)
    \/ Resolve(p)
    \/ ResolveOne(p)

NextRun == \E p \in Procs : Step(p)

\* extract_package calls made one after another: a call begins only when no
\* call is in progress.
InitSequential ==
    CollectorEmpty /\ HistEmpty /\ RunIdle /\ UsageIdle /\ FnIdle /\ mode = "sequential"

SpecSequential == InitSequential /\ [][NextRun]_vars

\* Two threads, each running one extract_package against the one global
\* collector.
InitConcurrent ==
    CollectorEmpty /\ HistEmpty /\ RunIdle /\ UsageIdle /\ FnIdle /\ mode = "concurrent"

SpecConcurrent == InitConcurrent /\ [][NextRun]_vars

\* C2 (unsafe under concurrency, part 1): an analysis sees the collector hold
\* entries it did not contribute, or miss entries it did, at the moment it
\* reads the external references only if another thread changed the shared
\* collector while that analysis was between its clear() and its return.
ContaminationOnlyByInterleaving ==
    \A p \in Procs :
        (run[p].sawForeign \/ run[p].sawErased) => run[p].overlapped

\* C2 (part 2, the reachable unsafe state): an analysis is resolving
\* dependencies, one of the references it resolves was contributed by the
\* other analysis only, and entries of its own were erased by the other's
\* clear().
ConcurrentContamination ==
    \E p \in Procs :
        /\ run[p].pc = "loop"
        /\ run[p].sawForeign
        /\ run[p].sawErased
        /\ \E type_name \in run[p].todo : type_name \notin run[p].mine.refs

\* C3 (reset between analyses): when calls are made one after another, from
\* the moment a call resolves its dependencies the collector's refs,
\* defined_types, import_map and resolved_packages hold only entries that
\* call produced.
ResetBetweenAnalyses ==
    \A p \in Procs :
        run[p].pc \in {"resolve", "loop"} => ~Foreign(p)

\* A later call, on another tree than an earlier finished call, in the middle
\* of its resolution loop with a package already cached.
ResetWitness ==
    \E p \in Procs :
        /\ run[p].pc = "loop"
        /\ resolved_packages # EmptyMap
        /\ \E o \in results : o.tree # run[p].tree

\* C8 (import-map attribution first), as claimed: a reference whose base name
\* is in the import map with an installed root package never has its
\* recovered class listed under another package.
ImportMapPriority ==
    \A p \in Procs :
        \A e \in run[p].log :
            (e.importPkg # <<>> /\ e.listed # <<>>) => e.listed = e.importPkg

\* A resolution miss of the loop: no class was recovered for the reference.
is_miss(e) == e.listed = <<>>

\* The root package the import map names for a logged reference.
miss_root(e) == import_root(SplitHead(e.type, "["), import_map)

\* C16 (resolution misses), as claimed: a reference no strategy resolved to a
\* recovered class, whose base name is in the import map, leaves a dependency
\* entry for the import's root package when that package is not
\* standard-library and none when it is, and no call of
\* resolve_transitive_dependencies ends by raising.
MissesRecordedNotRaised ==
    /\ \A o \in results : o.status = "ok"
    /\ \A p \in Procs :
          run[p].pc = "loop" =>
             \A e \in run[p].log :
                (is_miss(e) /\ SplitHead(e.type, "[") \in DOMAIN import_map) =>
                    (miss_root(e) \in DOMAIN run[p].deps
                        <=> ~is_stdlib_package(miss_root(e)))

\* The place of a package name in ascending order of names.
package_rank(pkg) == CHOOSE i \in DOMAIN PackageOrder : PackageOrder[i] = pkg

\* The classes the returned list shows under a package.
classes_under(returned, pkg) ==
    UNION {Range(returned[i].classes) : i \in {j \in DOMAIN returned :
                                                  returned[j].package = pkg}}

\* C17 (grouped and sorted): in the list a finished
\* resolve_transitive_dependencies returned, no package name occurs in two
\* entries, the entries ascend by package name, and every class the loop
\* recovered is listed in the entry of the package it was recovered from.
GroupedAndSorted ==
    \A p \in Procs :
        run[p].pc = "done" =>
            /\ \A i \in DOMAIN run[p].returned : \A j \in DOMAIN run[p].returned :
                  i < j => package_rank(run[p].returned[i].package)
                              < package_rank(run[p].returned[j].package)
            /\ \A e \in run[p].log :
                  ~is_miss(e) =>
                      /\ Cardinality({i \in DOMAIN run[p].returned :
                                         run[p].returned[i].package = e.listed}) = 1
                      /\ SplitLast(e.type, ".")
                            \in classes_under(run[p].returned, e.listed)

\* A call returned two entries, one of them with two recovered classes.
GroupedAndSortedWitness ==
    \E p \in Procs :
        /\ run[p].pc = "done"
        /\ Len(run[p].returned) = 2
        /\ \E i \in DOMAIN run[p].returned : Len(run[p].returned[i].classes) = 2

\* The names the classes of a source tree mention.
tree_refs(tree) ==
    UNION {UNION {class_refs(tree.modules[m].classes[c]) :
                     c \in DOMAIN tree.modules[m].classes} :
              m \in DOMAIN tree.modules}

\* The names a recovered dependency class mentions.
dependency_refs ==
    UNION {class_refs(cls) : cls \in UNION {Installed[i].classes : i \in DOMAIN Installed}}

\* C22 (single pass): the references a call resolves are references of its
\* own source tree; a name only a recovered dependency class mentions is
\* never taken up by the loop, and the returned list holds no class and no
\* package on its account, although the collector holds the name.
SinglePass ==
    \A p \in Procs : run[p].pc # "idle" =>
        /\ run[p].todo \subseteq tree_refs(Tree(run[p].tree))
        /\ \A e \in run[p].log : e.type \in tree_refs(Tree(run[p].tree))
        /\ run[p].pc = "done" =>
              \A i \in DOMAIN run[p].returned :
                 /\ \A name \in Range(run[p].returned[i].classes) :
                       \E e \in run[p].log :
                          /\ e.listed = run[p].returned[i].package
                          /\ SplitLast(e.type, ".") = name
                 /\ \E e \in run[p].log :
                       \/ e.listed = run[p].returned[i].package
                       \/ is_miss(e) /\ miss_root(e) = run[p].returned[i].package

\* A call has returned after recovering a class whose own reference, to a
\* class an installed package defines, sits in the collector unresolved.
SinglePassWitness ==
    \E p \in Procs :
        /\ run[p].pc = "done"
        /\ run[p].returned # <<>>
        /\ \E name \in (refs \cap dependency_refs) \ tree_refs(Tree(run[p].tree)) :
              scan_installed(name, 1) # 0

\* C10 (idempotence), as claimed: two finished extract_package calls on the
\* same source tree, with the same installed packages, return the same model.
ExtractionDeterministic ==
    \A a \in results : \A b \in results : a.tree = b.tree => a = b

-----------------------------------------------------------------------------
(* analyze_usage: the API model                                            *)

Method(name, sig, ret) == [name |-> <<name>>, sig |-> sig, ret |-> ret]
Property(name, type) == [name |-> <<name>>, type |-> type]
ApiClass(name, base, methods, properties, entryPoint) ==
    [name |-> <<name>>, base |-> base, methods |-> methods,
     properties |-> properties, entryPoint |-> entryPoint]
Function(name, ret) == [name |-> <<name>>, ret |-> ret]

ApiModels ==
    {
    \* Two unrelated services that both expose get.
    [id |-> "services",
     classes |-> <<
        ApiClass("ServiceA", <<>>,
                 <<Method("get", <<"self">>, <<>>), Method("list_a", <<"self">>, <<"ServiceB">>)>>,
                 <<Property("b", <<"ServiceB">>)>>, TRUE),
        ApiClass("ServiceB", <<>>, <<Method("get", <<"self">>, <<>>)>>, <<>>, TRUE)>>,
     functions |-> <<Function("make_a", <<"ServiceA">>)>>],
    \* A client and a subclass that overrides send and adds poll.
    [id |-> "inherit",
     classes |-> <<
        ApiClass("Client", <<>>,
                 <<Method("send", <<"self">>, <<>>),
                   Method("open_sub", <<"self">>, <<"Awaitable", "[", "SubClient", "]">>)>>,
                 <<>>, TRUE),
        ApiClass("SubClient", <<"Client">>,
                 <<Method("send", <<"self">>, <<>>), Method("poll", <<"self">>, <<>>)>>,
                 <<>>, FALSE)>>,
     functions |-> <<>>],
    \* class Derived(Base[int]) overriding run.
    [id |-> "generic",
     classes |-> <<
        ApiClass("Base", <<>>, <<Method("run", <<"self">>, <<>>)>>, <<>>, TRUE),
        ApiClass("Derived", <<"Base", "[", "int", "]">>,
                 <<Method("run", <<"self">>, <<>>)>>, <<>>, FALSE)>>,
     functions |-> <<>>],
    \* class Multi(Root, Mixin), which refers to Peer, which refers back to it.
    [id |-> "multi",
     classes |-> <<
        ApiClass("Root", <<>>, <<Method("run", <<"self">>, <<>>)>>, <<>>, TRUE),
        ApiClass("Multi", <<"Root", ",", " ", "Mixin">>,
                 <<Method("go", <<"self", ",", " ", "p", ":", " ", "Peer">>, <<>>)>>,
                 <<>>, FALSE),
        ApiClass("Peer", <<>>, <<>>, <<Property("owner", <<"Multi">>)>>, FALSE)>>,
     functions |-> <<>>],
    \* An entry-point Client with send, and a SubClient(Client) with poll.
    [id |-> "client",
     classes |-> <<
        ApiClass("Client", <<>>, <<Method("send", <<"self">>, <<>>)>>, <<>>, TRUE),
        ApiClass("SubClient", <<"Client">>, <<Method("poll", <<"self">>, <<>>)>>,
                 <<>>, FALSE)>>,
     functions |-> <<>>],
    \* An entry point, and a Builder no other class mentions whose with_x
    \* returns a Builder.
    [id |-> "builder",
     classes |-> <<
        ApiClass("Entry", <<>>, <<Method("run", <<"self">>, <<>>)>>, <<>>, TRUE),
        ApiClass("Builder", <<>>, <<Method("with_x", <<"self">>, <<"Builder">>)>>,
                 <<>>, FALSE)>>,
     functions |-> <<>>],
    \* A hub whose one signature names two classes, the first of which
    \* returns the second and has a subclass.
    [id |-> "hub",
     classes |-> <<
        ApiClass("Hub", <<>>,
                 <<Method("go", <<"self", ",", " ", "a", ":", " ", "Left", ",", " ",
                                 "b", ":", " ", "Right">>, <<>>)>>,
                 <<>>, TRUE),
        ApiClass("Left", <<>>, <<Method("turn", <<"self">>, <<"Right">>)>>, <<>>, FALSE),
        ApiClass("Right", <<>>, <<Method("stop", <<"self">>, <<>>)>>, <<>>, FALSE),
        ApiClass("Sub", <<"Left">>, <<Method("more", <<"self">>, <<>>)>>, <<>>, FALSE)>>,
     functions |-> <<>>],
    \* Two classes that each name the other as base, each with a method
    \* that mentions its own class.
    [id |-> "loop",
     classes |-> <<
        ApiClass("Node", <<"Ring">>, <<Method("next", <<"self">>, <<"Node">>)>>,
                 <<>>, TRUE),
        ApiClass("Ring", <<"Node">>,
                 <<Method("link", <<"self", ",", " ", "r", ":", " ", "Ring">>, <<>>)>>,
                 <<>>, FALSE)>>,
     functions |-> <<>>],
    \* A record class with a property and no method.
    [id |-> "records",
     classes |-> <<ApiClass("Record", <<>>, <<>>, <<Property("size", <<"int">>)>>, TRUE)>>,
     functions |-> <<>>],
    \* No class at all.
    [id |-> "empty", classes |-> <<>>, functions |-> <<>>]
    }

Api == CHOOSE a \in ApiModels : a.id = api

\* cls.get("name", "").split("[")[0]
CName(cls) == SplitHead(cls.name, "[")

all_type_names(a) == {CName(a.classes[i]) : i \in DOMAIN a.classes}

TokenPunct == Punct \cup {":", "*", "=", "|"}

\* Pieces \w matches that [A-Za-z_] does not: digits, and letters outside
\* ASCII ("U00C9" is the one letter E with an acute accent).
DigitPieces == {"2"}
NonAsciiPieces == {"U00C9"}

\* \w
is_word_piece(piece) == piece \notin TokenPunct

\* [A-Za-z_]
is_start_piece(piece) ==
    is_word_piece(piece) /\ piece \notin DigitPieces \cup NonAsciiPieces

\* The end of the run of \w pieces that begins at position i.
RECURSIVE word_end(_, _)
word_end(text, i) ==
    IF i < Len(text) /\ is_word_piece(text[i + 1]) THEN word_end(text, i + 1) ELSE i

\* re.findall(r'[A-Za-z_]\w*', text) from position i on: a match begins at
\* the first piece [A-Za-z_] accepts and takes every \w piece after it.
RECURSIVE findall_identifiers(_, _)
findall_identifiers(text, i) ==
    IF i > Len(text) THEN {}
    ELSE IF is_start_piece(text[i])
    THEN {SubSeq(text, i, word_end(text, i))}
         \cup findall_identifiers(text, word_end(text, i) + 1)
    ELSE findall_identifiers(text, i + 1)

_tokenize_identifiers(text) == findall_identifiers(text, 1)

get_referenced_types(cls, names) ==
    (IF cls.base # <<>> /\ SplitHead(cls.base, "[") \in names
     THEN {SplitHead(cls.base, "[")} ELSE {})
    \cup UNION {(_tokenize_identifiers(cls.methods[i].sig)
                 \cup _tokenize_identifiers(cls.methods[i].ret)) \cap names :
                    i \in DOMAIN cls.methods}
    \cup UNION {_tokenize_identifiers(cls.properties[i].type) \cap names :
                    i \in DOMAIN cls.properties}

\* The last class of this name: a dict keyed by name keeps the last write.
LastNamed(a, name) ==
    a.classes[CHOOSE i \in DOMAIN a.classes :
                 /\ CName(a.classes[i]) = name
                 /\ \A j \in DOMAIN a.classes : CName(a.classes[j]) = name => j <= i]

references(a) ==
    [name \in all_type_names(a) |->
        get_referenced_types(LastNamed(a, name), all_type_names(a))]

\* The keys of referenced_by.
referenced_by(a) == UNION {references(a)[name] : name \in all_type_names(a)}

operation_types(a) ==
    {CName(a.classes[i]) : i \in {j \in DOMAIN a.classes : a.classes[j].methods # <<>>}}

refs_operation_type(a, cls) ==
    \E ref \in references(a)[CName(cls)] : ref \in operation_types(a)

is_root(a, cls) ==
    \/ cls.entryPoint /\ cls.methods # <<>>
    \/ /\ CName(cls) \notin referenced_by(a)
       /\ (cls.methods # <<>> \/ refs_operation_type(a, cls))

fallback_roots(a, strict) ==
    IF strict # <<>> THEN strict
    ELSE SelectSeq(a.classes,
                   LAMBDA cls : cls.methods # <<>> \/ refs_operation_type(a, cls))

root_classes(a) ==
    fallback_roots(a, SelectSeq(a.classes, LAMBDA cls : is_root(a, cls)))

derived_by_base(a, base_key) ==
    SelectSeq(a.classes,
              LAMBDA cls : cls.base # <<>> /\ SplitHead(cls.base, "[") = base_key)

class_names(classes) == [i \in DOMAIN classes |-> CName(classes[i])]

\* Only the first name not yet reachable is added.
RECURSIVE enqueue_first_only(_, _)
enqueue_first_only(names, st) ==
    IF names = <<>> THEN st
    ELSE IF Head(names) = <<>> \/ Head(names) \in st.reachable
    THEN enqueue_first_only(Tail(names), st)
    ELSE [reachable |-> st.reachable \cup {Head(names)},
          queue |-> Append(st.queue, Head(names))]

\* Every name appended, reachable or not.
RECURSIVE enqueue_unguarded(_, _)
enqueue_unguarded(names, st) ==
    IF names = <<>> THEN st
    ELSE enqueue_unguarded(Tail(names),
                           [reachable |-> st.reachable \cup {Head(names)},
                            queue |-> Append(st.queue, Head(names))])

\* "if name not in reachable: reachable.add(name); queue.append(name)", for
\* each name of a sequence in turn; an empty name is passed over.
RECURSIVE enqueue_all(_, _)
enqueue_all(names, st) ==
    IF names = <<>> THEN st
    ELSE IF Head(names) = <<>> \/ Head(names) \in st.reachable
    THEN enqueue_all(Tail(names), st)
    ELSE enqueue_all(Tail(names),
                     [reachable |-> st.reachable \cup {Head(names)},
                      queue |-> Append(st.queue, Head(names))])

\* The orders in which iterating a set can yield its elements.
Orders(S) == {o \in [1..Cardinality(S) -> S] : \A x \in S : \E i \in DOMAIN o : o[i] = x}

\* An insertion-ordered dict as a sequence of <<key, value>> pairs: assigning
\* to a key that is present keeps its position.
Keys(d) == {d[i][1] : i \in DOMAIN d}
KeyList(d) == [i \in DOMAIN d |-> d[i][1]]
Get(d, key) ==
    IF key \in Keys(d) THEN d[CHOOSE i \in DOMAIN d : d[i][1] = key][2] ELSE <<>>
Put(d, key, value) ==
    IF key \in Keys(d)
    THEN [i \in DOMAIN d |-> IF d[i][1] = key THEN <<key, value>> ELSE d[i]]
    ELSE Append(d, <<key, value>>)

usage_classes(a, reach) ==
    SelectSeq(a.classes, LAMBDA cls : CName(cls) \in reach /\ cls.methods # <<>>)

method_names(cls) == {cls.methods[i].name : i \in DOMAIN cls.methods}

RECURSIVE index_methods(_, _)
index_methods(classes, d) ==
    IF classes = <<>> THEN d
    ELSE index_methods(Tail(classes),
                       IF method_names(Head(classes)) # {}
                       THEN Put(d, Head(classes).name, method_names(Head(classes)))
                       ELSE d)

build_client_methods(a, reach) == index_methods(usage_classes(a, reach), <<>>)

\* f"{a}.{b}"
Dotted(a, b) == a \o <<".">> \o b

\* inner.rsplit(",", 1)[1].strip() for Coroutine, else inner
unwrap_inner(wrapper, inner) ==
    IF wrapper = "Coroutine" /\ StrContains(inner, ",")
    THEN Strip(SplitLast(inner, ","))
    ELSE inner

RECURSIVE unwrap_from(_, _)
unwrap_from(wrappers, ret_type) ==
    IF wrappers = <<>> THEN ret_type
    ELSE IF /\ Len(ret_type) >= 3
            /\ ret_type[1] = Head(wrappers)
            /\ ret_type[2] = "["
            /\ ret_type[Len(ret_type)] = "]"
    THEN unwrap_inner(Head(wrappers), SubSeq(ret_type, 3, Len(ret_type) - 1))
    ELSE unwrap_from(Tail(wrappers), ret_type)

_unwrap_async_return_type(ret_type) ==
    unwrap_from(<<"Awaitable", "Coroutine", "AsyncIterator", "AsyncIterable">>, ret_type)

\* _unwrap_async_return_type(ret).split("[")[0].strip()
unwrapped(ret) == Strip(SplitHead(_unwrap_async_return_type(ret), "["))

\* dict.get(key) on a dict whose order is never read.
MapGet(map, key) == IF key \in DOMAIN map THEN map[key] ELSE <<>>

returns_client(ret, cm) == ret # <<>> /\ unwrapped(ret) \in Keys(cm)

RECURSIVE method_returns(_, _, _, _)
method_returns(cls_name, methods, cm, result) ==
    IF methods = <<>> THEN result
    ELSE method_returns(cls_name, Tail(methods), cm,
            IF returns_client(Head(methods).ret, cm)
            THEN (Dotted(cls_name, Head(methods).name) :> unwrapped(Head(methods).ret))
                 @@ result
            ELSE result)

RECURSIVE class_method_returns(_, _, _)
class_method_returns(classes, cm, result) ==
    IF classes = <<>> THEN result
    ELSE class_method_returns(Tail(classes), cm,
            method_returns(Head(classes).name, Head(classes).methods, cm, result))

_build_method_return_type_map(a, cm) == class_method_returns(a.classes, cm, EmptyMap)

RECURSIVE function_returns(_, _, _)
function_returns(functions, cm, result) ==
    IF functions = <<>> THEN result
    ELSE function_returns(Tail(functions), cm,
            IF returns_client(Head(functions).ret, cm)
            THEN (Head(functions).name :> unwrapped(Head(functions).ret)) @@ result
            ELSE result)

_build_function_return_type_map(a, cm) == function_returns(a.functions, cm, EmptyMap)

is_client_type(type, cm) == type # <<>> /\ Strip(SplitHead(type, "[")) \in Keys(cm)

RECURSIVE property_types(_, _, _, _)
property_types(cls_name, properties, cm, result) ==
    IF properties = <<>> THEN result
    ELSE property_types(cls_name, Tail(properties), cm,
            IF is_client_type(Head(properties).type, cm)
            THEN (Dotted(cls_name, Head(properties).name)
                    :> Strip(SplitHead(Head(properties).type, "["))) @@ result
            ELSE result)

RECURSIVE class_property_types(_, _, _)
class_property_types(classes, cm, result) ==
    IF classes = <<>> THEN result
    ELSE class_property_types(Tail(classes), cm,
            property_types(Head(classes).name, Head(classes).properties, cm, result))

_build_property_type_map(a, cm) == class_property_types(a.classes, cm, EmptyMap)

\* {b.strip() for b in base_str.split(",") if b.strip() in client_methods}
client_bases(base_str, cm) ==
    {Strip(b) : b \in Range(SplitAll(base_str, ","))} \cap Keys(cm)

RECURSIVE class_bases_from(_, _, _)
class_bases_from(classes, cm, result) ==
    IF classes = <<>> THEN result
    ELSE class_bases_from(Tail(classes), cm,
            IF /\ Head(classes).name \in Keys(cm)
               /\ Head(classes).base # <<>>
               /\ client_bases(Head(classes).base, cm) # {}
            THEN (Head(classes).name :> client_bases(Head(classes).base, cm)) @@ result
            ELSE result)

_class_bases(a, cm) == class_bases_from(a.classes, cm, EmptyMap)

\* What the per-file loop reads: the index and the maps derived from it.
scan_context(a, cm) ==
    [client_methods |-> cm,
     client_names |-> Keys(cm),
     method_return_type_map |-> _build_method_return_type_map(a, cm),
     function_return_type_map |-> _build_function_return_type_map(a, cm),
     property_type_map |-> _build_property_type_map(a, cm),
     class_bases |-> _class_bases(a, cm)]

-----------------------------------------------------------------------------
(* Type inference over a sample file's tree                                *)

IsNode(n, kind) == n.k = kind

Assign(target, value) == Node("Assign", "", <<>>, <<value, target>>)
AnnAssign(target, annotation, value) ==
    Node("AnnAssign", "", <<>>, <<target, annotation, value>>)
MethodCall(receiver, attr) == CallNode(AttributeNode(receiver, attr))
Construct(name) == CallNode(NameNode(name))
Statement(kind) == Node(kind, "", <<>>, <<>>)

RECURSIVE _expr_to_str(_)
_expr_to_str(expr) ==
    IF IsNode(expr, "Name") THEN expr.id
    ELSE IF IsNode(expr, "Attribute") THEN Dotted(_expr_to_str(expr.kids[1]), expr.id)
    ELSE <<"?">>

_assign_var_type(target, type_name, var_types) ==
    IF IsNode(target, "Name") THEN (target.id :> type_name) @@ var_types
    ELSE IF IsNode(target, "Attribute")
    THEN (Dotted(_expr_to_str(target.kids[1]), target.id) :> type_name) @@ var_types
    ELSE var_types

_extract_client_type_from_annotation(ann, client_names) ==
    IF IsNode(ann, "Name") /\ ann.id \in client_names THEN ann.id
    ELSE IF IsNode(ann, "Attribute") /\ ann.id \in client_names THEN ann.id
    ELSE <<>>

\* The property-access branch of _infer_type_from_expr.
infer_property(expr, var_types, ctx) ==
    IF MapGet(var_types, _expr_to_str(expr.kids[1])) # <<>>
    THEN MapGet(ctx.property_type_map,
                Dotted(MapGet(var_types, _expr_to_str(expr.kids[1])), expr.id))
    ELSE <<>>

\* The branches of _infer_type_from_expr on the callee of a Call.
infer_call(func, var_types, ctx) ==
    IF IsNode(func, "Name")
    THEN IF func.id \in ctx.client_names THEN func.id
         ELSE MapGet(ctx.function_return_type_map, func.id)
    ELSE IF IsNode(func, "Attribute")
    THEN IF func.id \in ctx.client_names THEN func.id
         ELSE IF IsNode(func.kids[1], "Name") /\ func.kids[1].id \in ctx.client_names
         THEN func.kids[1].id
         ELSE IF IsNode(func.kids[1], "Name")
                 /\ MapGet(var_types, func.kids[1].id) # <<>>
         THEN MapGet(ctx.method_return_type_map,
                     Dotted(MapGet(var_types, func.kids[1].id), func.id))
         ELSE <<>>
    ELSE <<>>

_infer_type_from_expr(expr, var_types, ctx) ==
    IF IsNode(expr, "Attribute") /\ expr.kids[1].k \in {"Name", "Attribute"}
    THEN infer_property(expr, var_types, ctx)
    ELSE IF ~IsNode(expr, "Call") THEN <<>>
    ELSE infer_call(expr.kids[1], var_types, ctx)

RECURSIVE assign_targets(_, _, _)
assign_targets(targets, rhs_type, var_types) ==
    IF targets = <<>> THEN var_types
    ELSE assign_targets(Tail(targets), rhs_type,
                        _assign_var_type(Head(targets), rhs_type, var_types))

track_assign(node, var_types, ctx) ==
    IF _infer_type_from_expr(node.kids[1], var_types, ctx) # <<>>
    THEN assign_targets(Tail(node.kids),
                        _infer_type_from_expr(node.kids[1], var_types, ctx), var_types)
    ELSE var_types

track_ann_assign(node, var_types, ctx) ==
    IF _extract_client_type_from_annotation(node.kids[2], ctx.client_names) # <<>>
    THEN _assign_var_type(node.kids[1],
            _extract_client_type_from_annotation(node.kids[2], ctx.client_names),
            var_types)
    ELSE IF ~IsNode(node.kids[3], "None")
            /\ _infer_type_from_expr(node.kids[3], var_types, ctx) # <<>>
    THEN _assign_var_type(node.kids[1],
            _infer_type_from_expr(node.kids[3], var_types, ctx), var_types)
    ELSE var_types

\* walk is ast.walk(tree): the nodes of the file in breadth-first order.
RECURSIVE var_types_from(_, _, _)
var_types_from(walk, var_types, ctx) ==
    IF walk = <<>> THEN var_types
    ELSE var_types_from(Tail(walk),
            IF IsNode(Head(walk), "Assign") THEN track_assign(Head(walk), var_types, ctx)
            ELSE IF IsNode(Head(walk), "AnnAssign")
            THEN track_ann_assign(Head(walk), var_types, ctx)
            ELSE var_types,
            ctx)

_build_var_type_map(walk, ctx) == var_types_from(walk, EmptyMap, ctx)

\* The method name of extract_call_info; <<>> stands for None.
extract_call_info(node) ==
    IF IsNode(node.kids[1], "Attribute") THEN node.kids[1].id ELSE <<>>

\* Only the dotted key is looked up.
resolve_attribute_receiver_dotted(receiver, var_types) ==
    MapGet(var_types, Dotted(_expr_to_str(receiver.kids[1]), receiver.id))

resolve_attribute_receiver(receiver, var_types) ==
    IF MapGet(var_types, Dotted(_expr_to_str(receiver.kids[1]), receiver.id)) # <<>>
    THEN MapGet(var_types, Dotted(_expr_to_str(receiver.kids[1]), receiver.id))
    ELSE MapGet(var_types, receiver.id)

\* A called name that is a client type resolves to that type.
resolve_call_receiver_constructing(func, var_types, ctx) ==
    IF IsNode(func, "Name") /\ func.id \in Keys(ctx.client_methods) THEN func.id
    ELSE IF IsNode(func, "Name") THEN MapGet(ctx.function_return_type_map, func.id)
    ELSE <<>>

resolve_call_receiver(func, var_types, ctx) ==
    IF IsNode(func, "Name") THEN MapGet(ctx.function_return_type_map, func.id)
    ELSE IF /\ IsNode(func, "Attribute")
            /\ IsNode(func.kids[1], "Name")
            /\ MapGet(var_types, func.kids[1].id) # <<>>
    THEN MapGet(ctx.method_return_type_map,
                Dotted(MapGet(var_types, func.kids[1].id), func.id))
    ELSE <<>>

_resolve_receiver_type(node, var_types, ctx) ==
    IF ~IsNode(node.kids[1], "Attribute") THEN <<>>
    ELSE IF IsNode(node.kids[1].kids[1], "Name")
    THEN MapGet(var_types, node.kids[1].kids[1].id)
    ELSE IF IsNode(node.kids[1].kids[1], "Attribute")
    THEN resolve_attribute_receiver(node.kids[1].kids[1], var_types)
    ELSE IF IsNode(node.kids[1].kids[1], "Call")
    THEN resolve_call_receiver(node.kids[1].kids[1].kids[1], var_types, ctx)
    ELSE <<>>

-----------------------------------------------------------------------------
(* The scan of the sample files                                            *)

candidates(method_name, cm) ==
    SelectSeq(KeyList(cm), LAMBDA cn : method_name \in Get(cm, cn))

\* _class_bases.get(c, set()) & candidates_set is empty
candidate_roots(cands, class_bases) ==
    SelectSeq(cands, LAMBDA c : c \in DOMAIN class_bases
                                  => class_bases[c] \cap Range(cands) = {})

choose_root_first(roots) == IF Len(roots) >= 1 THEN roots[1] ELSE <<>>

\* roots[0] if len(roots) == 1 else None
choose_root(roots) == IF Len(roots) = 1 THEN roots[1] ELSE <<>>

choose_candidate_chain_only(cands, class_bases) ==
    IF Len(cands) > 1 THEN choose_root(candidate_roots(cands, class_bases)) ELSE <<>>

choose_candidate(cands, class_bases) ==
    IF Len(cands) = 1 THEN cands[1]
    ELSE IF Len(cands) > 1 THEN choose_root(candidate_roots(cands, class_bases))
    ELSE <<>>

\* Strategy 2: the client the method name alone selects, <<>> for None.
fallback_client(method_name, ctx) ==
    choose_candidate(candidates(method_name, ctx.client_methods), ctx.class_bases)

\* Strategy 1 applies: the receiver resolved to a client type that has the
\* method.
precise_hit(resolved, method_name, ctx) ==
    /\ resolved # <<>>
    /\ resolved \in Keys(ctx.client_methods)
    /\ method_name \in Get(ctx.client_methods, resolved)

Attribution(client, strategy) == [client |-> client, strategy |-> strategy]

attribute_without_continue(resolved, method_name, ctx) ==
    (IF precise_hit(resolved, method_name, ctx)
     THEN <<Attribution(resolved, 1)>> ELSE <<>>)
    \o (IF fallback_client(method_name, ctx) # <<>>
        THEN <<Attribution(fallback_client(method_name, ctx), 2)>> ELSE <<>>)

\* The attributions one call makes, in order: strategy 1 and "continue", or
\* else strategy 2.
attribute(resolved, method_name, ctx) ==
    IF precise_hit(resolved, method_name, ctx)
    THEN <<Attribution(resolved, 1)>>
    ELSE IF fallback_client(method_name, ctx) # <<>>
    THEN <<Attribution(fallback_client(method_name, ctx), 2)>>
    ELSE <<>>

\* The entry appended whether or not the key was seen.
record_covered_always(client, method_name, file, st) ==
    [st EXCEPT !.seen_ops = @ \cup {Dotted(client, method_name)},
               !.covered = Append(@, [client |-> client, method |-> method_name,
                                      file |-> file])]

\* "if key not in seen_ops: seen_ops.add(key); covered.append({...})"
record_covered(client, method_name, file, st) ==
    IF Dotted(client, method_name) \in st.seen_ops THEN st
    ELSE [st EXCEPT !.seen_ops = @ \cup {Dotted(client, method_name)},
                    !.covered = Append(@, [client |-> client, method |-> method_name,
                                           file |-> file])]

RECURSIVE record_all(_, _, _, _)
record_all(attrs, method_name, file, st) ==
    IF attrs = <<>> THEN st
    ELSE record_all(Tail(attrs), method_name, file,
                    record_covered(Head(attrs).client, method_name, file, st))

\* History: the receiver of the call, what it resolved to, what the call was
\* attributed to and which keys it added.
log_call(before, after, method_name, resolved, attrs, receiver) ==
    [after EXCEPT !.log = Append(@, [method |-> method_name, resolved |-> resolved,
                                     attrs |-> attrs,
                                     added |-> after.seen_ops \ before.seen_ops,
                                     receiver |-> receiver])]

record_call(method_name, resolved, attrs, file, st, receiver) ==
    log_call(st, record_all(attrs, method_name, file, st), method_name, resolved, attrs,
             receiver)

attribute_call(method_name, resolved, ctx, file, st, receiver) ==
    record_call(method_name, resolved, attribute(resolved, method_name, ctx), file, st,
                receiver)

scan_call(node, var_types, ctx, file, st) ==
    IF extract_call_info(node) = <<>> THEN st
    ELSE attribute_call(extract_call_info(node),
                        _resolve_receiver_type(node, var_types, ctx), ctx, file, st,
                        node.kids[1].kids[1])

RECURSIVE scan_calls(_, _, _, _, _)
scan_calls(walk, var_types, ctx, file, st) ==
    IF walk = <<>> THEN st
    ELSE scan_calls(Tail(walk), var_types, ctx, file,
                    IF IsNode(Head(walk), "Call")
                    THEN scan_call(Head(walk), var_types, ctx, file, st)
                    ELSE st)

\* The patterns one node adds, given the flags already raised in this file.
node_patterns(node, flags) ==
    (IF "async" \notin flags /\ node.k \in {"Await", "AsyncWith", "AsyncFor"}
     THEN {"async"} ELSE {})
    \cup (IF "error-handling" \notin flags /\ node.k = "Try"
          THEN {"error-handling"} ELSE {})
    \cup (IF "streaming" \notin flags /\ node.k = "AsyncFor"
          THEN {"streaming"} ELSE {})

RECURSIVE detect_from(_, _, _)
detect_from(walk, flags, found) ==
    IF walk = <<>> \/ flags = {"async", "error-handling", "streaming"} THEN found
    ELSE detect_from(Tail(walk), flags \cup node_patterns(Head(walk), flags),
                     found \cup node_patterns(Head(walk), flags))

detect_patterns_ast(walk, found) == detect_from(walk, {}, found)

\* sorted(patterns)
sorted(found) ==
    SelectSeq(<<"async", "error-handling", "streaming">>, LAMBDA x : x \in found)

\* A sample file: its path under the samples directory, whether ast.parse
\* accepts it, and ast.walk of its tree (the nodes the analysis dispatches on).
SampleFile(id, dirs, name, parses, walk) ==
    [id |-> id, dirs |-> dirs, name |-> name, parses |-> parses, walk |-> walk]

SampleFiles ==
    {
    \* x = ServiceA(); y = ServiceB(); x.get(); y.get()
    SampleFile("two_services.py", <<>>, <<"two_services", ".py">>, TRUE,
        <<Assign(NameNode("x"), Construct("ServiceA")),
          Assign(NameNode("y"), Construct("ServiceB")),
          Construct("ServiceA"), Construct("ServiceB"),
          MethodCall(NameNode("x"), "get"), MethodCall(NameNode("y"), "get")>>),
    \* Calls on receivers nothing is known about.
    SampleFile("untyped.py", <<>>, <<"untyped", ".py">>, TRUE,
        <<MethodCall(NameNode("a"), "get"), MethodCall(NameNode("b"), "list_a"),
          MethodCall(NameNode("d"), "send"), MethodCall(NameNode("z"), "run"),
          MethodCall(NameNode("z"), "missing")>>),
    \* A file ast.parse rejects.
    SampleFile("broken.py", <<>>, <<"broken", ".py">>, FALSE, <<>>),
    \* try: c = SubClient(); c.send(); await c.open_sub().poll(); SubClient().poll()
    SampleFile("inheriting.py", <<>>, <<"inheriting", ".py">>, TRUE,
        <<Statement("Try"),
          Assign(NameNode("c"), Construct("SubClient")),
          Statement("Await"),
          Construct("SubClient"),
          MethodCall(NameNode("c"), "send"),
          MethodCall(MethodCall(NameNode("c"), "open_sub"), "poll"),
          MethodCall(Construct("SubClient"), "poll"),
          MethodCall(NameNode("c"), "open_sub"),
          Construct("SubClient")>>),
    \* s = make_a(); self.svc = ServiceA(); t: ServiceB = ...; p = s.b;
    \* q = s.list_a(); async for ...: s.get(); make_a().list_a(); self.svc.get();
    \* t.get(); p.get(); q.get()
    SampleFile("async/factory.py", <<"async">>, <<"factory", ".py">>, TRUE,
        <<Assign(NameNode("s"), Construct("make_a")),
          Assign(AttributeNode(NameNode("self"), "svc"), Construct("ServiceA")),
          AnnAssign(NameNode("t"), NameNode("ServiceB"), NoneNode),
          Assign(NameNode("p"), AttributeNode(NameNode("s"), "b")),
          Assign(NameNode("q"), MethodCall(NameNode("s"), "list_a")),
          Statement("AsyncFor"),
          Construct("make_a"), Construct("ServiceA"),
          MethodCall(NameNode("s"), "list_a"),
          MethodCall(NameNode("s"), "get"),
          MethodCall(Construct("make_a"), "list_a"),
          MethodCall(AttributeNode(NameNode("self"), "svc"), "get"),
          MethodCall(NameNode("t"), "get"),
          MethodCall(NameNode("p"), "get"),
          MethodCall(NameNode("q"), "get"),
          Construct("make_a")>>),
    \* b = Base(); b.run()
    SampleFile("generic.py", <<>>, <<"generic", ".py">>, TRUE,
        <<Assign(NameNode("b"), Construct("Base")),
          Construct("Base"),
          MethodCall(NameNode("b"), "run")>>),
    \* Client().send(); SubClient().poll()
    SampleFile("calls.py", <<>>, <<"calls", ".py">>, TRUE,
        <<MethodCall(Construct("Client"), "send"),
          MethodCall(Construct("SubClient"), "poll"),
          Construct("Client"), Construct("SubClient")>>),
    \* ServiceA().get(); ServiceB().get(); ServiceA().list_a()
    SampleFile("chained.py", <<>>, <<"chained", ".py">>, TRUE,
        <<MethodCall(Construct("ServiceA"), "get"),
          MethodCall(Construct("ServiceB"), "get"),
          MethodCall(Construct("ServiceA"), "list_a"),
          Construct("ServiceA"), Construct("ServiceB"), Construct("ServiceA")>>),
    \* b = ServiceB(); self.b = ServiceA(); a.b.get(); self.b.get(); a.c.get()
    SampleFile("paths.py", <<>>, <<"paths", ".py">>, TRUE,
        <<Assign(NameNode("b"), Construct("ServiceB")),
          Assign(AttributeNode(NameNode("self"), "b"), Construct("ServiceA")),
          Construct("ServiceB"), Construct("ServiceA"),
          MethodCall(AttributeNode(NameNode("a"), "b"), "get"),
          MethodCall(AttributeNode(NameNode("self"), "b"), "get"),
          MethodCall(AttributeNode(NameNode("a"), "c"), "get")>>),
    \* async with ...: try: async for ...: await ...
    SampleFile("stream.py", <<>>, <<"stream", ".py">>, TRUE,
        <<Statement("AsyncWith"), Statement("Try"), Statement("AsyncFor"),
          Statement("Await")>>),
    \* try: ... except* ValueError: ...
    SampleFile("groups.py", <<>>, <<"groups", ".py">>, TRUE,
        <<Statement("TryStar")>>),
    \* A test module and a file of a virtual environment: both passed over.
    SampleFile("test_client.py", <<>>, <<"test_", "client", ".py">>, TRUE,
        <<MethodCall(NameNode("a"), "list_a"), MethodCall(NameNode("z"), "run")>>),
    SampleFile("venv/site.py", <<"venv">>, <<"site", ".py">>, TRUE,
        <<MethodCall(NameNode("d"), "poll")>>)
    }

FileById(id) == CHOOSE f \in SampleFiles : f.id = id

\* The files the loop passes over before counting them.
is_skipped(f) ==
    \/ \E part \in Range(f.dirs) : part \in {"__pycache__", "venv", ".venv"}
    \/ Head(f.name) = "test_"
    \/ f.name[Len(f.name)] = "_test.py"

count_file(st) == [st EXCEPT !.file_count = @ + 1]

with_patterns(walk, st) == [st EXCEPT !.patterns = detect_patterns_ast(walk, @)]

analyze_tree(f, ctx, st) ==
    with_patterns(f.walk,
        scan_calls(f.walk, _build_var_type_map(f.walk, ctx), ctx, f.id, st))

scan_file_uncounted(f, ctx, st) ==
    IF f.parses THEN analyze_tree(f, ctx, count_file(st)) ELSE st

\* One turn of the loop for a file that is not passed over: count it, then
\* parse it, and analyse it if that succeeded.
scan_file(f, ctx, st) ==
    IF f.parses THEN analyze_tree(f, ctx, count_file(st)) ELSE count_file(st)

visit_file(f, ctx, st) == IF is_skipped(f) THEN st ELSE scan_file(f, ctx, st)

\* base_to_subclasses / subclass_to_bases, read with any().
base_parts(cls) == {Strip(b) : b \in Range(SplitAll(cls.base, ","))} \ {<<>>}

subclass_to_bases(a, cm, name) ==
    UNION {base_parts(a.classes[i]) \cap Keys(cm) :
             i \in {j \in DOMAIN a.classes : a.classes[j].name = name}}

base_to_subclasses(a, cm, base) ==
    {a.classes[i].name :
       i \in {j \in DOMAIN a.classes :
                base \in base_parts(a.classes[j]) \cap Keys(cm)}}

\* Not seen, and not covered_via_related.
is_uncovered(client_name, method, a, cm, seen) ==
    /\ Dotted(client_name, method) \notin seen
    /\ \A base \in subclass_to_bases(a, cm, client_name) : Dotted(base, method) \notin seen
    /\ \A sub \in base_to_subclasses(a, cm, client_name) : Dotted(sub, method) \notin seen

uncovered_entries(client_name, methods) ==
    [i \in DOMAIN methods |->
        [client |-> client_name, method |-> methods[i],
         sig |-> methods[i] \o <<"(...)">>]]

uncovered_of(client_name, order, a, cm, seen) ==
    uncovered_entries(client_name,
        SelectSeq(order, LAMBDA m : is_uncovered(client_name, m, a, cm, seen)))

\* orders[client_name] is the order in which the client's method set is
\* iterated.
RECURSIVE build_uncovered(_, _, _, _, _)
build_uncovered(keys, orders, a, cm, seen) ==
    IF keys = <<>> THEN <<>>
    ELSE uncovered_of(Head(keys), orders[Head(keys)], a, cm, seen)
         \o build_uncovered(Tail(keys), orders, a, cm, seen)

MethodOrders(cm) ==
    {o \in [Keys(cm) -> UNION {Orders(Get(cm, k)) : k \in Keys(cm)}] :
        \A k \in Keys(cm) : o[k] \in Orders(Get(cm, k))}

-----------------------------------------------------------------------------
(* analyze_usage, one step at a time                                       *)

MaxFiles == 2

Ctx == scan_context(Api, client_methods)

ScanState ==
    [covered |-> covered, seen_ops |-> seen_ops, patterns |-> patterns,
     file_count |-> file_count, log |-> <<>>]

EmptyScan ==
    [covered |-> <<>>, seen_ops |-> {}, patterns |-> {}, file_count |-> 0, log |-> <<>>]

SetQueue(st) == reachable' = st.reachable /\ queue' = st.queue

\* Lines 969-1028: collect the classes, build the graph, pick the roots and
\* put them on the queue.
StartUsage(a) ==
    /\ upc = "idle"
    /\ api' = a.id
    /\ SetQueue(enqueue_all(class_names(root_classes(a)),
                            [reachable |-> {}, queue |-> <<>>]))
    /\ upc' = "bfs"
    /\ UNCHANGED <<client_methods, covered, seen_ops, patterns, file_count,
                   uncovered, sorted_patterns, visited, lastAttr>>
    /\ UNCHANGED <<collVars, collHist, runVars, fnVars>>

\* One turn of "while queue": pop the head, add what it references (a set,
\* iterated in some order), then its subclasses in API order.
BfsStep ==
    /\ upc = "bfs"
    /\ queue # <<>>
    /\ \E order \in Orders(references(Api)[Head(queue)]) :
          SetQueue(enqueue_all(order \o class_names(derived_by_base(Api, Head(queue))),
                               [reachable |-> reachable, queue |-> Tail(queue)]))
    /\ UNCHANGED <<api, upc, client_methods, covered, seen_ops, patterns, file_count,
                   uncovered, sorted_patterns, visited, lastAttr>>
    /\ UNCHANGED <<collVars, collHist, runVars, fnVars>>

\* The scan entered whatever the index holds.
after_index_always_scan(cm) == "scan"

\* "if not client_methods: return" the empty report; else go on to the scan.
after_index(cm) == IF cm = <<>> THEN "done" ELSE "scan"

\* Lines 1050-1088: the client-method index; with an empty index the function
\* returns the empty report at once.
BuildIndex ==
    /\ upc = "bfs"
    /\ queue = <<>>
    /\ client_methods' = build_client_methods(Api, reachable)
    /\ upc' = after_index(build_client_methods(Api, reachable))
    /\ UNCHANGED <<api, reachable, queue, covered, seen_ops, patterns, file_count,
                   uncovered, sorted_patterns, visited, lastAttr>>
    /\ UNCHANGED <<collVars, collHist, runVars, fnVars>>

SetScan(st) ==
    /\ covered' = st.covered
    /\ seen_ops' = st.seen_ops
    /\ patterns' = st.patterns
    /\ file_count' = st.file_count
    /\ lastAttr' = st.log

\* One turn of the loop over samples_path.rglob("*.py").
ScanFile(f) ==
    /\ upc = "scan"
    /\ Len(visited) < MaxFiles
    /\ f.id \notin Range(visited)
    /\ SetScan(visit_file(f, Ctx, ScanState))
    /\ visited' = Append(visited, f.id)
    /\ UNCHANGED <<api, upc, reachable, queue, client_methods, uncovered,
                   sorted_patterns>>
    /\ UNCHANGED <<collVars, collHist, runVars, fnVars>>

\* Lines 1175-1221: the uncovered list and the returned report.
Report ==
    /\ upc = "scan"
    /\ \E orders \in MethodOrders(client_methods) :
          uncovered' = build_uncovered(KeyList(client_methods), orders, Api,
                                       client_methods, seen_ops)
    /\ sorted_patterns' = sorted(patterns)
    /\ upc' = "done"
    /\ UNCHANGED <<api, reachable, queue, client_methods, covered, seen_ops, patterns,
                   file_count, visited, lastAttr>>
    /\ UNCHANGED <<collVars, collHist, runVars, fnVars>>

InitUsage ==
    CollectorEmpty /\ HistEmpty /\ RunIdle /\ UsageIdle /\ FnIdle /\ mode = "none"

NextUsage ==
    \/ \E a \in ApiModels : StartUsage(a)
    \/ BfsStep
    \/ BuildIndex
    \/ \E f \in SampleFiles : ScanFile(f)
    \/ Report

SpecUsage == InitUsage /\ [][NextUsage]_vars

\* analyze_usage is straight-line code: once called, the "while queue" loop
\* takes its next turn while the queue holds a name, and the code after the
\* loop runs once the queue is empty.
SpecUsageLive ==
    InitUsage /\ [][NextUsage]_vars /\ WF_vars(BfsStep) /\ WF_vars(BuildIndex)

-----------------------------------------------------------------------------
(* Properties of analyze_usage                                             *)

\* The classes a class names as its bases: extract_class joins the base
\* expressions with ", ", and a base may carry type arguments.
declared_bases(cls) == {SplitHead(b, "[") : b \in base_parts(cls)}

CoveredKeys == {Dotted(covered[i].client, covered[i].method) : i \in DOMAIN covered}
UncoveredKeys ==
    {Dotted(uncovered[i].client, uncovered[i].method) : i \in DOMAIN uncovered}

\* C4 (reachability fixed point): once the traversal is over, the reachable set
\* holds every root, every API class a reachable class references, and every
\* API class that declares a reachable class as a base, so that a further
\* traversal step from any member adds nothing.
ReachabilityFixedPoint ==
    (upc \in {"scan", "done"}) =>
        /\ \A i \in DOMAIN root_classes(Api) : CName(root_classes(Api)[i]) \in reachable
        /\ \A c \in reachable :
              /\ references(Api)[c] \subseteq reachable
              /\ \A i \in DOMAIN Api.classes :
                    c \in declared_bases(Api.classes[i])
                        => CName(Api.classes[i]) \in reachable
              /\ enqueue_all(class_names(derived_by_base(Api, c)),
                             [reachable |-> reachable, queue |-> <<>>]).queue = <<>>

\* What one round adds to a set of class names: what its members reference
\* and the classes declared with a member as base.
reach_step(a, S) ==
    S \cup UNION {references(a)[c] : c \in S}
      \cup UNION {Range(class_names(derived_by_base(a, c))) : c \in S}

RECURSIVE reach_closure(_, _)
reach_closure(a, S) ==
    IF reach_step(a, S) = S THEN S ELSE reach_closure(a, reach_step(a, S))

\* C23 (order independence): once the traversal is over, the reachable set is
\* the closure of the roots under references and subclassing, whichever
\* order the references of each class were visited in.
ReachableOrderIndependent ==
    (upc \in {"scan", "done"}) =>
        reachable = reach_closure(Api, Range(class_names(root_classes(Api))))

\* The traversal of the hub model is over; the two classes its signature
\* names could be visited in either order.
ReachableOrderWitness ==
    /\ upc = "scan"
    /\ \E c \in reachable : Cardinality(references(Api)[c]) > 1
    /\ Cardinality(reachable) = 4

\* C5 (inherited coverage, both directions): in the report, when B declares
\* base A and both are indexed client types, a call attributed to A.f keeps
\* B.f out of the uncovered list and a call attributed to B.f keeps A.f out.
InheritedCoverage ==
    (upc = "done") =>
        \A i \in DOMAIN Api.classes : \A a \in declared_bases(Api.classes[i]) :
            (a \in Keys(client_methods) /\ Api.classes[i].name \in Keys(client_methods))
            => \A f \in Get(client_methods, a) \cup Get(client_methods, Api.classes[i].name) :
                  /\ Dotted(a, f) \in CoveredKeys
                        => Dotted(Api.classes[i].name, f) \notin UncoveredKeys
                  /\ Dotted(Api.classes[i].name, f) \in CoveredKeys
                        => Dotted(a, f) \notin UncoveredKeys

\* C6 (precise inference wins and stops): a call whose receiver resolved to a
\* client type T that has the called method m is attributed to (T, m) by
\* strategy 1 and to nothing else, T.m is then covered, and the call adds no
\* key of another client type; x.get() and y.get() with x a ServiceA and y a
\* ServiceB cover exactly ServiceA.get and ServiceB.get.
PreciseInferenceStops ==
    /\ \A i \in DOMAIN lastAttr :
          precise_hit(lastAttr[i].resolved, lastAttr[i].method, Ctx)
          => /\ lastAttr[i].attrs = <<Attribution(lastAttr[i].resolved, 1)>>
             /\ Dotted(lastAttr[i].resolved, lastAttr[i].method) \in seen_ops
             /\ lastAttr[i].added
                  \subseteq {Dotted(lastAttr[i].resolved, lastAttr[i].method)}
    /\ (api = "services" /\ visited = <<"two_services.py">>)
          => CoveredKeys = {<<"ServiceA", ".", "get">>, <<"ServiceB", ".", "get">>}

\* Two client types expose the method, the receivers were inferred, and each
\* call went to the inferred type only.
PreciseInferenceWitness ==
    /\ api = "services"
    /\ visited = <<"two_services.py">>
    /\ \E i, j \in DOMAIN lastAttr :
          /\ lastAttr[i].attrs = <<Attribution(<<"ServiceA">>, 1)>>
          /\ lastAttr[j].attrs = <<Attribution(<<"ServiceB">>, 1)>>
          /\ lastAttr[i].method = <<"get">> /\ lastAttr[j].method = <<"get">>
          /\ Len(candidates(<<"get">>, client_methods)) = 2

\* The candidates of a method name that declare no other candidate as a base.
unbased_candidates(method_name) ==
    {c \in Range(candidates(method_name, client_methods)) :
        \A i \in DOMAIN Api.classes :
            Api.classes[i].name = c
            => declared_bases(Api.classes[i])
                 \cap Range(candidates(method_name, client_methods)) = {}}

\* C7 (no guessing): a call that strategy 2 attributes to client c has c as
\* the only client exposing the method or, among several candidates, as the
\* only one with no other candidate as a base; a call attributed to nothing
\* adds no covered key.
AmbiguousNeverGuessed ==
    \A i \in DOMAIN lastAttr :
        /\ \A k \in DOMAIN lastAttr[i].attrs :
              lastAttr[i].attrs[k].strategy = 2
              => \/ Range(candidates(lastAttr[i].method, client_methods))
                      = {lastAttr[i].attrs[k].client}
                 \/ /\ Len(candidates(lastAttr[i].method, client_methods)) > 1
                    /\ unbased_candidates(lastAttr[i].method)
                          = {lastAttr[i].attrs[k].client}
        /\ lastAttr[i].attrs = <<>> => lastAttr[i].added = {}
        /\ lastAttr[i].added
              \subseteq {Dotted(lastAttr[i].attrs[k].client, lastAttr[i].method) :
                            k \in DOMAIN lastAttr[i].attrs}

\* One file in which get, exposed by the unrelated ServiceA and ServiceB, was
\* left unattributed while list_a, exposed by ServiceA alone, was attributed.
AmbiguousWitness ==
    /\ api = "services"
    /\ \E i, j \in DOMAIN lastAttr :
          /\ lastAttr[i].method = <<"get">>
          /\ lastAttr[i].resolved = <<>>
          /\ lastAttr[i].attrs = <<>>
          /\ Len(candidates(<<"get">>, client_methods)) = 2
          /\ lastAttr[j].attrs = <<Attribution(<<"ServiceA">>, 2)>>
    /\ CoveredKeys = {<<"ServiceA", ".", "list_a">>}

\* The visited files that were counted, and those of them that parsed.
counted(files) == SelectSeq(files, LAMBDA id : ~is_skipped(FileById(id)))
parsed(files) == SelectSeq(counted(files), LAMBDA id : FileById(id).parses)

RECURSIVE analyze_all(_, _, _)
analyze_all(files, ctx, st) ==
    IF files = <<>> THEN st
    ELSE analyze_all(Tail(files), ctx,
                     analyze_tree(FileById(Head(files)), ctx, st))

\* C9 (unparseable sample file): the scan never leaves its loop on a file that
\* does not parse; every counted file, parseable or not, adds one to the file
\* count; and the covered list and the patterns are those of the parseable
\* files alone, in the order visited, whatever unparseable files came between.
UnparseableSkipped ==
    (upc = "scan") =>
        /\ file_count = Len(counted(visited))
        /\ covered = analyze_all(parsed(visited), Ctx, EmptyScan).covered
        /\ seen_ops = analyze_all(parsed(visited), Ctx, EmptyScan).seen_ops
        /\ patterns = analyze_all(parsed(visited), Ctx, EmptyScan).patterns

\* An unparseable file was visited first and a later file still contributed a
\* covered entry and a pattern.
UnparseableWitness ==
    /\ upc = "scan"
    /\ Len(visited) = 2
    /\ ~FileById(visited[1]).parses
    /\ file_count = 2
    /\ \E i \in DOMAIN covered : covered[i].file = visited[2]
    /\ patterns # {}

\* Some parsed file among those visited has a node of one of these kinds.
parsed_has(kinds) ==
    \E i \in DOMAIN parsed(visited) :
        \E n \in DOMAIN FileById(parsed(visited)[i]).walk :
            FileById(parsed(visited)[i]).walk[n].k \in kinds

pattern_rank(name) ==
    IF name = "async" THEN 1 ELSE IF name = "error-handling" THEN 2 ELSE 3

\* C25 (structural patterns), as claimed: the reported list is sorted, holds
\* "async" exactly when a parsed file has an await, async with or async for,
\* "error-handling" exactly when a parsed file has a try block (with except
\* or with except*), "streaming" exactly when a parsed file has an async for;
\* and "streaming" comes with "async".
PatternsReported ==
    (upc = "done") =>
        /\ \A i \in DOMAIN sorted_patterns : \A j \in DOMAIN sorted_patterns :
              i < j => pattern_rank(sorted_patterns[i]) < pattern_rank(sorted_patterns[j])
        /\ "async" \in Range(sorted_patterns)
              <=> parsed_has({"Await", "AsyncWith", "AsyncFor"})
        /\ "error-handling" \in Range(sorted_patterns) <=> parsed_has({"Try", "TryStar"})
        /\ "streaming" \in Range(sorted_patterns) <=> parsed_has({"AsyncFor"})
        /\ "streaming" \in Range(sorted_patterns) => "async" \in Range(sorted_patterns)

\* The names a step appends to the queue: all of it when the roots are put
\* on it, what follows the remainder of the old queue in a turn of the loop.
appended ==
    IF upc = "bfs" /\ queue # <<>>
    THEN SubSeq(queue', Len(queue), Len(queue')) ELSE queue'

\* C27 (the traversal terminates): every name a step appends to the queue is
\* appended once and was not in the reachable set, which only grows and holds
\* every queued name, so no name is queued twice; every reachable name is the
\* name of a class of the API model; and a traversal that has started leaves
\* the loop, also on a model whose classes refer to or derive from one another
\* or themselves.
TraversalTerminates ==
    /\ [](api # "none" =>
             /\ reachable \subseteq all_type_names(Api)
             /\ Range(queue) \subseteq reachable)
    /\ [][/\ reachable \subseteq reachable'
          /\ \A i \in DOMAIN appended :
                /\ appended[i] \notin reachable
                /\ appended[i] \in reachable'
                /\ \A j \in DOMAIN appended : appended[j] = appended[i] => j = i]_vars
    /\ (upc = "bfs") ~> (upc # "bfs")

\* The traversal of the two classes that derive from each other and mention
\* themselves is over, both reached.
TraversalTerminatesWitness ==
    /\ api = "loop"
    /\ upc # "bfs"
    /\ queue = <<>>
    /\ reachable = {<<"Node">>, <<"Ring">>}

\* The receiver is T(...) for a client type T.
is_construction(receiver) ==
    /\ IsNode(receiver, "Call")
    /\ IsNode(receiver.kids[1], "Name")
    /\ receiver.kids[1].id \in Keys(client_methods)

\* C28 (chained call on a construction): a call T(...).m(...) with T a client
\* type gets no receiver type from inference; it is attributed to (T, m) only
\* by strategy 2 and only when the method name alone selects T; and of
\* ServiceA().get(), ServiceB().get() and ServiceA().list_a() only list_a,
\* which ServiceA alone exposes, is attributed.
ConstructionNotInferred ==
    /\ \A i \in DOMAIN lastAttr :
          is_construction(lastAttr[i].receiver)
          => /\ lastAttr[i].resolved = <<>>
             /\ \A k \in DOMAIN lastAttr[i].attrs :
                   /\ lastAttr[i].attrs[k].strategy = 2
                   /\ lastAttr[i].attrs[k].client = fallback_client(lastAttr[i].method, Ctx)
             /\ (fallback_client(lastAttr[i].method, Ctx) # lastAttr[i].receiver.kids[1].id)
                   => \A k \in DOMAIN lastAttr[i].attrs :
                         lastAttr[i].attrs[k].client # lastAttr[i].receiver.kids[1].id
    /\ (api = "services" /\ visited = <<"chained.py">>)
          => CoveredKeys = {<<"ServiceA", ".", "list_a">>}

\* ServiceA().get() and ServiceB().get() were scanned and left unattributed,
\* both types exposing get, and ServiceA().list_a() went to ServiceA.
ConstructionNotInferredWitness ==
    /\ api = "services"
    /\ visited = <<"chained.py">>
    /\ \E i, j, k \in DOMAIN lastAttr :
          /\ lastAttr[i].receiver = Construct("ServiceA")
          /\ lastAttr[j].receiver = Construct("ServiceB")
          /\ lastAttr[i].method = <<"get">> /\ lastAttr[j].method = <<"get">>
          /\ lastAttr[i].attrs = <<>> /\ lastAttr[j].attrs = <<>>
          /\ lastAttr[k].receiver = Construct("ServiceA")
          /\ lastAttr[k].attrs = <<Attribution(<<"ServiceA">>, 2)>>
    /\ CoveredKeys = {<<"ServiceA", ".", "list_a">>}

\* The variable types inferred in the file scanned last.
last_var_types == _build_var_type_map(FileById(visited[Len(visited)]).walk, Ctx)

\* The dotted key a.b of an attribute-path receiver.
path_key(receiver) == Dotted(_expr_to_str(receiver.kids[1]), receiver.id)

\* C30 (attribute-path receiver): the receiver type of a.b.m() is the type
\* inferred for the key a.b if there is one, else the type inferred for the
\* plain variable b; in the second case a b bound to a client type T that
\* exposes m has the call attributed to (T, m) by strategy 1. With
\* b = ServiceB() and self.b = ServiceA(), a.b.get() covers ServiceB.get and
\* self.b.get() covers ServiceA.get.
AttributePathFallback ==
    /\ \A i \in DOMAIN lastAttr :
          IsNode(lastAttr[i].receiver, "Attribute")
          => /\ MapGet(last_var_types, path_key(lastAttr[i].receiver)) # <<>>
                  => lastAttr[i].resolved
                        = MapGet(last_var_types, path_key(lastAttr[i].receiver))
             /\ MapGet(last_var_types, path_key(lastAttr[i].receiver)) = <<>>
                  => /\ lastAttr[i].resolved
                          = MapGet(last_var_types, lastAttr[i].receiver.id)
                     /\ precise_hit(MapGet(last_var_types, lastAttr[i].receiver.id),
                                    lastAttr[i].method, Ctx)
                          => /\ lastAttr[i].attrs
                                  = <<Attribution(MapGet(last_var_types,
                                                         lastAttr[i].receiver.id), 1)>>
                             /\ Dotted(MapGet(last_var_types, lastAttr[i].receiver.id),
                                       lastAttr[i].method) \in seen_ops
    /\ (api = "services" /\ visited = <<"paths.py">>)
          => CoveredKeys = {<<"ServiceB", ".", "get">>, <<"ServiceA", ".", "get">>}

\* a.b.get() was scanned with no type inferred for a.b and b a ServiceB, and
\* went to ServiceB; get alone selects no client.
AttributePathFallbackWitness ==
    /\ api = "services"
    /\ visited = <<"paths.py">>
    /\ fallback_client(<<"get">>, Ctx) = <<>>
    /\ \E i \in DOMAIN lastAttr :
          /\ lastAttr[i].receiver = AttributeNode(NameNode("a"), "b")
          /\ MapGet(last_var_types, <<"a", ".", "b">>) = <<>>
          /\ MapGet(last_var_types, <<"b">>) = <<"ServiceB">>
          /\ lastAttr[i].attrs = <<Attribution(<<"ServiceB">>, 1)>>
    /\ <<"ServiceB", ".", "get">> \in CoveredKeys

\* The positions of a (client, method) pair in a list of report entries.
entries_for(list, client, method) ==
    {i \in DOMAIN list : list[i].client = client /\ list[i].method = method}

\* The method is declared on a reachable class of the API that has methods.
in_index(client, method) ==
    /\ client \in Keys(client_methods)
    /\ method \in Get(client_methods, client)
    /\ \E i \in DOMAIN Api.classes :
          /\ Api.classes[i].name = client
          /\ CName(Api.classes[i]) \in reachable
          /\ method \in method_names(Api.classes[i])

\* The declared bases and the direct subclasses of a client class.
related_classes(client) ==
    UNION {declared_bases(Api.classes[i]) :
              i \in {j \in DOMAIN Api.classes : Api.classes[j].name = client}}
    \cup {Api.classes[i].name :
              i \in {j \in DOMAIN Api.classes :
                        client \in declared_bases(Api.classes[j])}}

\* C26 (well-formed report): at any point of the scan no pair is twice in
\* covered and every covered pair is in the client-method index; in the
\* returned report every uncovered pair is in the index, no pair is both
\* covered and uncovered or twice uncovered, and every pair of the index that
\* is not covered and whose method is not covered on a declared base or a
\* direct subclass is uncovered exactly once.
ReportWellFormed ==
    /\ \A i \in DOMAIN covered :
          /\ entries_for(covered, covered[i].client, covered[i].method) = {i}
          /\ in_index(covered[i].client, covered[i].method)
    /\ (upc = "done") =>
          /\ \A i \in DOMAIN uncovered :
                /\ entries_for(uncovered, uncovered[i].client, uncovered[i].method) = {i}
                /\ in_index(uncovered[i].client, uncovered[i].method)
                /\ entries_for(covered, uncovered[i].client, uncovered[i].method) = {}
          /\ \A client \in Keys(client_methods) :
                \A method \in Get(client_methods, client) :
                   (/\ entries_for(covered, client, method) = {}
                    /\ \A r \in related_classes(client) :
                          entries_for(covered, r, method) = {})
                   => Cardinality(entries_for(uncovered, client, method)) = 1

\* A report with covered and uncovered pairs, after two files of which the
\* second called an operation the first had covered.
ReportWellFormedWitness ==
    /\ upc = "done"
    /\ covered # <<>>
    /\ uncovered # <<>>
    /\ Len(visited) = 2
    /\ \E i \in DOMAIN lastAttr : lastAttr[i].attrs # <<>> /\ lastAttr[i].added = {}

\* C11 (Client / SubClient scenario): with the API model of an entry-point
\* Client holding send and a SubClient(Client) holding poll, a scan that
\* visited the sample calling Client().send() and SubClient().poll() reports
\* both (Client, send) and (SubClient, poll) as covered and nothing as
\* uncovered.
ClientScenario ==
    (api = "client" /\ upc = "done" /\ "calls.py" \in Range(visited))
    => /\ {<<"Client", ".", "send">>, <<"SubClient", ".", "poll">>} \subseteq CoveredKeys
       /\ \E i \in DOMAIN covered :
             covered[i].client = <<"Client">> /\ covered[i].method = <<"send">>
       /\ \E i \in DOMAIN covered :
             covered[i].client = <<"SubClient">> /\ covered[i].method = <<"poll">>
       /\ uncovered = <<>>

\* The report of a scan of that sample alone.
ClientScenarioWitness ==
    /\ api = "client"
    /\ upc = "done"
    /\ visited = <<"calls.py">>
    /\ reachable = {<<"Client">>, <<"SubClient">>}
    /\ Len(covered) = 2
    /\ file_count = 1

\* The classes other than cls that mention cls.
referrers(a, cls) ==
    {name \in all_type_names(a) \ {CName(cls)} : CName(cls) \in references(a)[name]}

\* C13 (root selection): a class is selected as a root exactly when it is an
\* entry point with a method, or no class other than itself references it and
\* it has a method or references a class that has one; whatever is selected is
\* reachable when the traversal starts.
RootSelection ==
    (upc # "idle") =>
        \A i \in DOMAIN Api.classes :
            /\ is_root(Api, Api.classes[i])
                  <=> \/ Api.classes[i].entryPoint /\ Api.classes[i].methods # <<>>
                      \/ /\ referrers(Api, Api.classes[i]) = {}
                         /\ \/ Api.classes[i].methods # <<>>
                            \/ refs_operation_type(Api, Api.classes[i])
            /\ is_root(Api, Api.classes[i]) => CName(Api.classes[i]) \in reachable

\* C18 (structural absence): once the traversal is over, an API model with no
\* class at all, or with no method on any reachable class, has its analysis
\* finished with empty covered, uncovered and patterns lists; no file is
\* scanned for it.
StructuralAbsence ==
    (upc \in {"scan", "done"}
        /\ \A i \in DOMAIN Api.classes :
               CName(Api.classes[i]) \in reachable => Api.classes[i].methods = <<>>)
    => /\ upc = "done"
       /\ covered = <<>>
       /\ uncovered = <<>>
       /\ sorted_patterns = <<>>
       /\ visited = <<>>

\* The analysis of the API model without classes has returned.
StructuralAbsenceWitness ==
    /\ upc = "done"
    /\ Api.classes = <<>>

-----------------------------------------------------------------------------
(* Functions applied on their own: collect_types_from_annotation           *)

\* Annotations without a subscription.
AnnLeaves ==
    {NoneNode, NumConstant, CallNode(NameNode("f")),
     NameNode("int"), NameNode("str"), NameNode("Widget"), NameNode("Foo"),
     AttributeNode(NameNode("pkg"), "Widget"),
     AttributeNode(NameNode("os"), "PathLike"),
     AttributeNode(AttributeNode(NameNode("http"), "client"), "HTTPResponse"),
     AttributeNode(NameNode("typing"), "Optional"),
     AttributeNode(CallNode(NameNode("f")), "Widget"),
     StrConstant(<<"pkg", ".", "Widget">>), StrConstant(<<"Foo">>),
     StrConstant(<<"int">>), StrConstant(<<"pkg", ".">>)}

\* One subscription, union or list over them: X[a], Dict[str, a], a | Foo,
\* [a, int].
AnnShallow ==
    {SubscriptNode(NameNode(b), a) : b \in {"Optional", "Foo"}, a \in AnnLeaves}
    \cup {SubscriptNode(NameNode("Dict"), TupleNode(<<NameNode("str"), a>>)) :
            a \in AnnLeaves}
    \cup {BinOpNode(a, op, NameNode("Foo")) : a \in AnnLeaves, op \in {"BitOr", "Add"}}
    \cup {ListNode(<<a, NameNode("int")>>) : a \in AnnLeaves}

\* A second level: Optional[a], Dict[Widget, a].
AnnNested ==
    {SubscriptNode(NameNode("Optional"), a) : a \in AnnShallow}
    \cup {SubscriptNode(NameNode("Dict"), TupleNode(<<NameNode("Widget"), a>>)) :
            a \in AnnShallow}

AnnInputs == AnnLeaves \cup AnnShallow \cup AnnNested

\* What refs may hold when the call is made.
RefsInputs == {{}, {<<"Foo">>}, {<<"pkg", ".", "Widget">>, <<"Other">>}}

\* collect_types_from_annotation(ann, refs): output is refs after the call.
ApplyCollectTypes ==
    /\ applied = "none"
    /\ input.fn = "collect_types_from_annotation"
    /\ applied' = input.fn
    /\ output' = input.refs \cup collect_types_from_annotation(input.ann)
    /\ UNCHANGED <<input, collVars, collHist, runVars, useVars>>

Collected == applied = "collect_types_from_annotation"

\* Optional[Dict[str, "pkg.Widget"]]
NestedForwardRef ==
    SubscriptNode(NameNode("Optional"),
        SubscriptNode(NameNode("Dict"),
            TupleNode(<<NameNode("str"), StrConstant(<<"pkg", ".", "Widget">>)>>)))

\* An annotation built from names, dotted names, string forward references,
\* subscriptions and their argument tuples only.
RECURSIVE IsGenericAnnotation(_)
IsGenericAnnotation(ann) ==
    \/ ann.k \in {"Name", "None"}
    \/ ann.k = "Attribute" /\ _get_attribute_name(ann) # <<>>
    \/ ann.k = "Constant" /\ ann.aux = "str" /\ IsDottedName(ann.id)
    \/ /\ ann.k \in {"Subscript", "Tuple"}
       /\ \A i \in 1..Len(ann.kids) : IsGenericAnnotation(ann.kids[i])

ann_has_kids(ann) ==
    ann.k \in {"Subscript", "Tuple", "List"} \/ (ann.k = "BinOp" /\ ann.aux = "BitOr")

\* The names at the leaves of such an annotation, at any depth.
RECURSIVE LeafNames(_)
LeafNames(ann) ==
    IF ann.k = "Name" THEN {ann.id}
    ELSE IF ann.k = "Attribute" THEN {_get_attribute_name(ann)}
    ELSE IF ann.k = "Constant" THEN {ann.id}
    ELSE UNION {LeafNames(ann.kids[i]) : i \in 1..Len(ann.kids)}

\* C12 (nested generics and forward references): collecting from
\* Optional[Dict[str, "pkg.Widget"]] adds pkg.Widget and nothing else, and for
\* every annotation made of subscriptions the names added are exactly the
\* non-builtin names at its leaves, whatever the depth: no builtin wrapper or
\* argument is added and no leaf is missed.
NestedGenericCollected ==
    Collected =>
        /\ input.ann = NestedForwardRef
              => output = input.refs \cup {<<"pkg", ".", "Widget">>}
        /\ IsGenericAnnotation(input.ann)
              => output = input.refs
                    \cup {n \in LeafNames(input.ann) : ~is_builtin_type(n)}
        /\ \A n \in output \ input.refs : ~is_builtin_type(n)

\* The scenario's annotation collected into an empty set.
NestedGenericWitness ==
    /\ Collected
    /\ input.ann = NestedForwardRef
    /\ input.refs = {}
    /\ output = {<<"pkg", ".", "Widget">>}

\* A string literal that does not re-parse as an expression, or a node that
\* is no identifier, qualified name, subscription, "|" union, string literal,
\* tuple or list.
is_ignored_shape(ann) ==
    \/ ann.k = "Constant" /\ ann.aux = "str" /\ ~IsDottedName(ann.id)
    \/ ann.k = "Constant" /\ ann.aux # "str"
    \/ ann.k = "BinOp" /\ ann.aux # "BitOr"
    \/ ann.k \notin {"None", "Name", "Attribute", "Subscript", "BinOp", "Constant",
                     "Tuple", "List"}

DottedUnlessStdlib ==
    (Collected /\ input.ann.k = "Attribute" /\ _get_attribute_name(input.ann) # <<>>)
    => output = input.refs \cup
          (IF \/ is_builtin_type(_get_attribute_name(input.ann))
              \/ is_stdlib_package(_get_attribute_name(input.ann))
           THEN {} ELSE {_get_attribute_name(input.ann)})

\* C14 as amended: a dotted annotation that is a chain of names adds its fully
\* dotted name in every case, a standard-library root or a builtin last
\* segment included; a chain that does not end in a name adds nothing.
DottedAlwaysAdded ==
    (Collected /\ input.ann.k = "Attribute")
    => /\ _get_attribute_name(input.ann) # <<>>
             => output = input.refs \cup {_get_attribute_name(input.ann)}
       /\ _get_attribute_name(input.ann) = <<>> => output = input.refs

\* os.PathLike collected into an empty set.
DottedStdlibWitness ==
    /\ Collected
    /\ input.ann = AttributeNode(NameNode("os"), "PathLike")
    /\ is_stdlib_package(<<"os", ".", "PathLike">>)
    /\ input.refs = {}
    /\ output = {<<"os", ".", "PathLike">>}

-----------------------------------------------------------------------------
(* Functions applied on their own: is_builtin_type                         *)

MaxNameLen == 4

NameTokens == {"int", "Dict", "typing", "Widget", ".", "[", "]", " "}

\* Every string of at most MaxNameLen tokens.
NameInputs == UNION {[1..n -> NameTokens] : n \in 0..MaxNameLen}

ApplyIsBuiltin ==
    /\ applied = "none"
    /\ input.fn = "is_builtin_type"
    /\ applied' = input.fn
    /\ output' = is_builtin_type(input.name)
    /\ UNCHANGED <<input, collVars, collHist, runVars, useVars>>

\* The tokens before the first "[", blanks left out.
base_tokens(name) == SelectSeq(SplitHead(name, "["), LAMBDA t : t # " ")

\* C15 (builtin classification): is_builtin_type(name) holds exactly when the
\* part of name before its first "[", blanks trimmed, is one undotted member
\* of the builtin set; a dotted base part is never builtin whatever its last
\* segment, and what follows the first "[" never changes the answer.
BuiltinExactly ==
    (applied = "is_builtin_type") =>
        /\ output <=> /\ Len(base_tokens(input.name)) = 1
                      /\ base_tokens(input.name)[1] \in PYTHON_BUILTINS
        /\ StrContains(SplitHead(input.name, "["), ".") => ~output
        /\ output = is_builtin_type(SplitHead(input.name, "["))

\* typing.Dict: dotted, with a builtin last segment, and not builtin.
BuiltinWitness ==
    /\ applied = "is_builtin_type"
    /\ input.name = <<"typing", ".", "Dict">>
    /\ output = FALSE

-----------------------------------------------------------------------------
(* The specification of the functions applied on their own                 *)

-----------------------------------------------------------------------------
(* Functions applied on their own: the file filters of extract_package and *)
(* analyze_usage.  A path is the sequence of its parts, a part a sequence  *)
(* of pieces: "_", ".", "-" and the words between them.                    *)

\* pattern in text
Within(pattern, text) ==
    \E i \in 1..(Len(text) + 1 - Len(pattern)) :
        SubSeq(text, i, i + Len(pattern) - 1) = pattern

StartsWith(text, prefix) ==
    Len(text) >= Len(prefix) /\ SubSeq(text, 1, Len(prefix)) = prefix

EndsWith(text, suffix) ==
    Len(text) >= Len(suffix)
    /\ SubSeq(text, Len(text) + 1 - Len(suffix), Len(text)) = suffix

\* str(py_file)
path_str(parts) == Join(parts, "/")

InitPy == <<"_", "_", "init", "_", "_", ".", "py">>
Pycache == <<"_", "_", "pycache", "_", "_">>

\* The skip list of extract_package.
ExtractSkips ==
    {Pycache,
     <<"venv">>, <<".", "venv">>,
     <<"test", "_">>, <<"_", "test", ".", "py">>,
     <<"/", "test", "s", "/">>, <<"\\", "test", "s", "\\">>,
     <<".", "tox">>, <<".", "nox">>,
     <<"site", "-", "packages">>,
     <<"/", "build", "/">>, <<"\\", "build", "\\">>,
     <<"/", "dist", "/">>, <<"\\", "dist", "\\">>,
     <<".", "egg", "s">>, <<".", "egg", "-", "info">>,
     <<"node", "_", "modules">>}

\* extract_package passes the file to extract_module.
extract_package_selects(parts) ==
    /\ ~(/\ ~Within(<<"TestFixtures">>, path_str(parts))
          /\ \E skip \in ExtractSkips : Within(skip, path_str(parts)))
    /\ ~(StartsWith(parts[Len(parts)], <<"_">>) /\ parts[Len(parts)] # InitPy)

\* analyze_usage counts the file and reads it.
analyze_usage_selects(parts) ==
    /\ ~\E i \in DOMAIN parts : parts[i] \in {Pycache, <<"venv">>, <<".", "venv">>}
    /\ ~StartsWith(parts[Len(parts)], <<"test", "_">>)
    /\ ~EndsWith(parts[Len(parts)], <<"_", "test", ".", "py">>)

MaxDepth == 2

DirNames ==
    {<<"src">>, Pycache, <<"venv">>, <<".", "venv">>, <<"my", "venv">>,
     <<"test", "s">>, <<"build">>, <<"dist">>, <<".", "tox">>,
     <<"site", "-", "packages">>, <<"pkg", ".", "egg", "-", "info">>,
     <<"node", "_", "modules">>, <<"TestFixtures">>}

FileNames ==
    {<<"client", ".", "py">>, InitPy, <<"_", "private", ".", "py">>,
     <<"test", "_", "client", ".", "py">>, <<"client", "_", "test", ".", "py">>,
     <<"la", "test", "_", "news", ".", "py">>}

PathInputs ==
    {dirs \o <<name>> : dirs \in UNION {[1..n -> DirNames] : n \in 0..MaxDepth},
                         name \in FileNames}

\* Both filters on one path of an rglob("*.py").
ApplyFileFilters ==
    /\ applied = "none"
    /\ input.fn = "file_filters"
    /\ applied' = input.fn
    /\ output' = [extraction |-> extract_package_selects(input.path),
                  usage |-> analyze_usage_selects(input.path)]
    /\ UNCHANGED <<input, collVars, collHist, runVars, useVars>>

\* C19 (file selection), as claimed: on every path the filter of
\* extract_package and the filter of analyze_usage decide alike.
FiltersAgree ==
    applied = "file_filters" => output.extraction = output.usage

-----------------------------------------------------------------------------
(* Functions applied on their own: the overload merging of extract_class   *)
(* and extract_module.  A declaration is a def of the body: its name, its  *)
(* docstring (<<>> for none) and whether it carries @overload / @property. *)

Def(name, doc, overload, property) ==
    [name |-> name, doc |-> doc, overload |-> overload, property |-> property]

\* extract_function on the declaration at position i of the body; the
\* position stands for the text of its signature.
func_info(item, i) ==
    [name |-> item.name, sig |-> i, doc |-> item.doc, overload |-> FALSE]

\* The declarations the loop passes over: in a class, single-underscore names
\* and double-underscore names that are not dunders; in a module, every name
\* with a leading underscore.
is_private(item, scope) ==
    IF scope = "class"
    THEN \/ StartsWith(item.name, <<"_">>) /\ ~StartsWith(item.name, <<"_", "_">>)
         \/ StartsWith(item.name, <<"_", "_">>) /\ ~EndsWith(item.name, <<"_", "_">>)
    ELSE StartsWith(item.name, <<"_">>)

\* overload_map.pop(key)
Pop(d, key) == SelectSeq(d, LAMBDA kv : kv[1] # key)

\* An overload takes the implementation's docstring when it has none.
carry_doc(ol, impl_doc) ==
    [ol EXCEPT !.doc = IF @ = <<>> /\ impl_doc # <<>> THEN impl_doc ELSE @,
               !.overload = TRUE]

carry_docs(overloads, impl_doc) ==
    [i \in DOMAIN overloads |-> carry_doc(overloads[i], impl_doc)]

\* One turn of the loop over the body: st holds methods (functions, for a
\* module), properties and overload_map.
merge_item(item, info, scope, st) ==
    IF is_private(item, scope) THEN st
    ELSE IF item.overload
    THEN [st EXCEPT !.overload_map =
                        Put(@, item.name, Get(@, item.name) \o <<info>>)]
    ELSE IF scope = "class" /\ item.property
    THEN [st EXCEPT !.properties = Append(@, item.name)]
    ELSE IF item.name \in Keys(st.overload_map)
    THEN [st EXCEPT !.methods = @ \o carry_docs(Get(st.overload_map, item.name),
                                                info.doc),
                    !.overload_map = Pop(@, item.name)]
    ELSE [st EXCEPT !.methods = Append(@, info)]

RECURSIVE merge_body(_, _, _, _)
merge_body(body, i, scope, st) ==
    IF i > Len(body) THEN st
    ELSE merge_body(body, i + 1, scope,
                    merge_item(body[i], func_info(body[i], i), scope, st))

\* "Append any remaining @overload signatures": the lists left in
\* overload_map, in insertion order.
RECURSIVE remaining_overloads(_)
remaining_overloads(om) ==
    IF om = <<>> THEN <<>>
    ELSE carry_docs(Head(om)[2], <<>>) \o remaining_overloads(Tail(om))

merged(st) == st.methods \o remaining_overloads(st.overload_map)

\* The methods of a class body, or the functions of a module body.
merge_overloads(body, scope) ==
    merged(merge_body(body, 1, scope,
                      [methods |-> <<>>, properties |-> <<>>, overload_map |-> <<>>]))

MaxBody == 3

Declarations ==
    {Def(<<"f">>, <<>>, TRUE, FALSE), Def(<<"f">>, <<"own">>, TRUE, FALSE),
     Def(<<"f">>, <<>>, FALSE, FALSE), Def(<<"f">>, <<"impl">>, FALSE, FALSE),
     Def(<<"f">>, <<>>, FALSE, TRUE),
     Def(<<"g">>, <<>>, TRUE, FALSE), Def(<<"g">>, <<"impl">>, FALSE, FALSE),
     Def(<<"_", "h">>, <<>>, TRUE, FALSE)}

BodyInputs == UNION {[1..n -> Declarations] : n \in 0..MaxBody}

ApplyMergeOverloads ==
    /\ applied = "none"
    /\ input.fn = "merge_overloads"
    /\ applied' = input.fn
    /\ output' = merge_overloads(input.body, input.scope)
    /\ UNCHANGED <<input, collVars, collHist, runVars, useVars>>

\* The positions of the visible declarations of a name marked @overload.
overloads_of(body, scope, name) ==
    {i \in DOMAIN body : /\ body[i].name = name /\ body[i].overload
                          /\ ~is_private(body[i], scope)}

\* The positions of the visible unmarked declarations of a name that are
\* not properties of a class.
implementations_of(body, scope, name) ==
    {i \in DOMAIN body : /\ body[i].name = name /\ ~body[i].overload
                          /\ ~is_private(body[i], scope)
                          /\ ~(scope = "class" /\ body[i].property)}

undocumented(body, S) == {i \in S : body[i].doc = <<>>}

Min(S) == CHOOSE i \in S : \A j \in S : i <= j

\* The entry of the merged list made from the declaration at position i.
entries_of(list, i) == {k \in DOMAIN list : list[k].sig = i}

\* C20 (overload merging), every overload listed: each declaration marked
\* @overload has exactly one entry in the merged list, flagged as overload
\* and keeping a docstring of its own.
OverloadsListed ==
    applied = "merge_overloads" =>
        \A i \in DOMAIN input.body :
            (input.body[i].overload /\ ~is_private(input.body[i], input.scope)) =>
                /\ Cardinality(entries_of(output, i)) = 1
                /\ \A k \in entries_of(output, i) :
                      /\ output[k].overload
                      /\ output[k].name = input.body[i].name
                      /\ input.body[i].doc # <<>> => output[k].doc = input.body[i].doc

\* C20, the implementation dropped: a name with overloads has no unmarked
\* entry in the merged list, wherever its implementation stands.
ImplementationDropped ==
    applied = "merge_overloads" =>
        \A k \in DOMAIN output :
            overloads_of(input.body, input.scope, output[k].name) # {}
                => output[k].overload

\* C20, the docstring inherited once: of the undocumented overloads of a
\* name only the first has a docstring in the merged list, and it has the
\* implementation's when the implementation is documented.
DocInheritedByFirstOnly ==
    applied = "merge_overloads" =>
        \A i \in DOMAIN input.body :
            LET name == input.body[i].name
                bare == undocumented(input.body,
                                     overloads_of(input.body, input.scope, name))
                impl == implementations_of(input.body, input.scope, name)
            IN  i \in bare =>
                   \A k \in entries_of(output, i) :
                      IF i = Min(bare) /\ impl # {} /\ undocumented(input.body, impl) = {}
                      THEN output[k].doc = <<"impl">>
                      ELSE i # Min(bare) => output[k].doc = <<>>

\* C20 (overload merging), as claimed.
OverloadMerging ==
    OverloadsListed /\ ImplementationDropped /\ DocInheritedByFirstOnly

-----------------------------------------------------------------------------
(* Functions applied on their own: get_referenced_types.  A type string is *)
(* a sequence of pieces; pieces with nothing between them spell one        *)
(* identifier, so <<"Policy", "List">> is PolicyList.                      *)

MaxSigLen == 3

SigPieces == {"Policy", "List", "U00C9", "2", " "}

SigInputs == UNION {[1..n -> SigPieces] : n \in 0..MaxSigLen}

BaseInputs ==
    {<<>>, <<"Policy">>, <<"Policy", "[", "int", "]">>, <<"Other">>,
     <<"Policy", ",", " ", "Mixin">>}

\* The names of the API classes.
TypeNames == {<<"Policy">>, <<"Policy", "List">>, <<"X">>}

\* Class X with the text as the signature of its method, as its return type,
\* or as the type of its property.
class_with(base, text, slot) ==
    ApiClass("X", base,
             IF slot = "sig" THEN <<Method("m", text, <<>>)>>
             ELSE IF slot = "ret" THEN <<Method("m", <<"self">>, text)>>
             ELSE <<>>,
             IF slot = "type" THEN <<Property("p", text)>> ELSE <<>>,
             FALSE)

ApplyGetReferencedTypes ==
    /\ applied = "none"
    /\ input.fn = "get_referenced_types"
    /\ applied' = input.fn
    /\ output' = get_referenced_types(class_with(input.base, input.text, input.slot),
                                      TypeNames)
    /\ UNCHANGED <<input, collVars, collHist, runVars, useVars>>

\* The identifiers Python reads in a text: an identifier begins at a letter
\* or underscore, ASCII or not, and runs over every letter, digit and
\* underscore that follows.
RECURSIVE identifiers_in(_, _)
identifiers_in(text, i) ==
    IF i > Len(text) THEN {}
    ELSE IF is_word_piece(text[i]) /\ text[i] \notin DigitPieces
    THEN {SubSeq(text, i, word_end(text, i))}
         \cup identifiers_in(text, word_end(text, i) + 1)
    ELSE identifiers_in(text, i + 1)

\* C21 (whole-identifier edges), as claimed: every class the class X
\* references is a known API class and is either a complete identifier of the
\* signature, return type or property type, never a part of a longer
\* identifier, or the name of the declared base.
WholeIdentifierEdges ==
    applied = "get_referenced_types" =>
        \A y \in output :
            /\ y \in TypeNames
            /\ \/ y \in identifiers_in(input.text, 1)
               \/ y = SplitHead(input.base, "[")

-----------------------------------------------------------------------------
(* extract_module: the classes it hands to extract_class                   *)

\* A top-level class statement of a module: its name, its bases, the
\* annotations of its public methods and the names of the classes defined in
\* its body.
ClassStmt(name, bases, anns, nested) ==
    [name |-> name, bases |-> bases, anns |-> anns, nested |-> nested]

HiddenName == Node("Name", "", <<"_", "Hidden">>, <<>>)

\* Every top-level class statement registered, whatever its name.
RECURSIVE extract_classes_all(_, _)
extract_classes_all(body, coll) ==
    IF body = <<>> THEN coll
    ELSE extract_classes_all(Tail(body),
            [refs |-> coll.refs \cup class_refs(Head(body)),
             defined |-> add_defined_type(coll.defined, Head(body).name)])

\* "for node in ast.iter_child_nodes(tree)": extract_class runs on the class
\* statements whose name has no leading underscore; it collects the bases and
\* the annotations and registers the name. Nothing looks into a class body
\* for classes.
RECURSIVE extract_classes(_, _)
extract_classes(body, coll) ==
    IF body = <<>> THEN coll
    ELSE extract_classes(Tail(body),
            IF StartsWith(Head(body).name, <<"_">>) THEN coll
            ELSE [refs |-> coll.refs \cup class_refs(Head(body)),
                  defined |-> add_defined_type(coll.defined, Head(body).name)])

\* get_external_refs() on a collector holding these refs and defined types.
external_refs(coll) ==
    {name \in coll.refs :
        SplitHead(name, "[") \notin coll.defined /\ ~is_builtin_type(name)}

MaxStmts == 3

ClassStmts ==
    {\* class Panel(_Base): class Inner: ...; def f(self, h: _Hidden, i: Inner) -> int
     ClassStmt(<<"Panel">>, <<Node("Name", "", <<"_", "Base">>, <<>>)>>,
               <<HiddenName, NameNode("Inner"), NameNode("int")>>, <<<<"Inner">>>>),
     \* class View(Panel): def g(self, i: Panel.Inner) -> Optional[_Hidden]
     ClassStmt(<<"View">>, <<NameNode("Panel")>>,
               <<AttributeNode(NameNode("Panel"), "Inner"),
                 SubscriptNode(NameNode("Optional"), HiddenName)>>, <<>>),
     \* class _Hidden: def h(self) -> Widget
     ClassStmt(<<"_", "Hidden">>, <<>>, <<NameNode("Widget")>>, <<>>),
     \* class _Base: class Inner: ...
     ClassStmt(<<"_", "Base">>, <<>>, <<>>, <<<<"Inner">>>>),
     \* class Inner: ...
     ClassStmt(<<"Inner">>, <<>>, <<>>, <<>>)}

ModuleInputs == UNION {[1..n -> ClassStmts] : n \in 1..MaxStmts}

\* extract_module on a cleared collector, then get_external_refs() as the
\* dependency resolution reads it.
ApplyExtractModule ==
    /\ applied = "none"
    /\ input.fn = "extract_module"
    /\ applied' = input.fn
    /\ output' = [defined |-> extract_classes(input.body, [refs |-> {}, defined |-> {}]).defined,
                  refs |-> extract_classes(input.body, [refs |-> {}, defined |-> {}]).refs,
                  external |-> external_refs(extract_classes(input.body,
                                                [refs |-> {}, defined |-> {}]))]
    /\ UNCHANGED <<input, collVars, collHist, runVars, useVars>>

\* The names of the top-level classes of a module without a leading
\* underscore, of those with one, and of the classes defined in class bodies.
public_names(body) ==
    {body[i].name : i \in {j \in DOMAIN body : ~StartsWith(body[j].name, <<"_">>)}}
private_names(body) ==
    {body[i].name : i \in {j \in DOMAIN body : StartsWith(body[j].name, <<"_">>)}}
nested_names(body) == UNION {Range(body[i].nested) : i \in DOMAIN body}

\* The references to a class by its own name or through an attribute path.
references_to(rs, name) == {r \in rs : SplitLast(r, ".") = name}

\* C29 (only extracted classes are registered): after extract_module the
\* defined types are the names of the public top-level classes and nothing
\* else; the name of an underscore-prefixed class, or of a nested class that
\* no public top-level class shares, is not among them, and every reference
\* to it collected from a public class is among the external references the
\* dependency resolution starts from.
UnextractedAreExternal ==
    (applied = "extract_module") =>
        /\ output.defined = public_names(input.body)
        /\ \A name \in private_names(input.body)
                        \cup (nested_names(input.body) \ public_names(input.body)) :
              /\ name \notin output.defined
              /\ references_to(output.refs, name) \subseteq output.external

\* A public class annotated with an underscore-prefixed class of the same
\* module and with a class nested in its own body: both names came back as
\* external references.
UnextractedAreExternalWitness ==
    /\ applied = "extract_module"
    /\ <<"_", "Hidden">> \in private_names(input.body)
    /\ <<"Inner">> \in nested_names(input.body) \ public_names(input.body)
    /\ {<<"_", "Hidden">>, <<"Inner">>} \subseteq output.external
    /\ output.defined # {}

FunctionInputs ==
    [fn : {"collect_types_from_annotation"}, ann : AnnInputs, refs : RefsInputs]
    \cup [fn : {"get_referenced_types"}, base : BaseInputs, text : SigInputs,
           slot : {"sig", "ret", "type"}]
    \cup [fn : {"merge_overloads"}, body : BodyInputs, scope : {"class", "module"}]
    \cup [fn : {"is_builtin_type"}, name : NameInputs]
    \cup [fn : {"file_filters"}, path : PathInputs]
    \cup [fn : {"extract_module"}, body : ModuleInputs]

InitFunction ==
    /\ CollectorEmpty /\ HistEmpty /\ RunIdle /\ UsageIdle /\ mode = "none"
    /\ applied = "none"
    /\ input \in FunctionInputs
    /\ output = <<>>

NextFunction ==
    \/ ApplyCollectTypes
    \/ ApplyIsBuiltin
    \/ ApplyFileFilters
    \/ ApplyMergeOverloads
    \/ ApplyGetReferencedTypes
    \/ ApplyExtractModule

SpecFunction == InitFunction /\ [][NextFunction]_vars

====
